---- MODULE Spec2Model ----
(***************************************************************************)
(* Model of the weather-cell / road-risk hotspot simulation engine         *)
(* (class Simulation) and of the handlers that call it.                    *)
(*                                                                         *)
(* Conventions.                                                            *)
(*  - Temperatures are integers in tenths of a degree (10.0 C is 100).     *)
(*  - A uniform draw in [0,1) is an integer number of millionths, exactly  *)
(*    as #randUniform produces it ((t >>> 0) % 1000000) / 1000000.         *)
(*  - A 32-bit word is a pair <<hi, lo>> of 16-bit halves, so that no      *)
(*    intermediate result leaves the range of the integers of TLC.         *)
(*  - An instant is a whole number of hours since the start of a year      *)
(*    (UTC); only the order of instants, the hour of the day and the day   *)
(*    of the year are ever read by the code.                               *)
(*  - Every handler of the program runs to completion (the program has no  *)
(*    await inside a handler), so one action is one whole handler.         *)
(***************************************************************************)
EXTENDS Integers, Sequences, FiniteSets, TLC

(***************************************************************************)
(* Bounds of the model.                                                    *)
(***************************************************************************)
\* Largest targetCellCount a simulation is constructed with.
MaxCells == 2
\* Largest number of events ingested (pushRawEvent or production) in a run.
MaxIngest == 1
\* Largest number of events callers push in a run of scored events.
MaxPushes == 2

\* The events pushed in the runs of several windows.
MaxWindowPushes == 3
\* Largest number of flushes in a run.
MaxFlushes == 2
\* Largest targetHotspotCount a simulation is constructed with.
MaxHotspots == 1
\* Largest total_count #generateHotspotStatistics is stepped with under an
\* arbitrary random stream.
MaxOccurrences == 2
\* Largest number of events of one bucket in the classification runs.
MaxVotes == 10
\* Largest forceCount generateInitialCells is called with.
MaxForceCount == 3

(***************************************************************************)
(* Numbers.                                                                *)
(***************************************************************************)
\* The IEEE not-a-number, kept apart from every finite value of the model.
NaN == 0 - 1000000000

IsNaN(x) == x = NaN

\* x + y of two numbers.
Add(x, y) == IF IsNaN(x) \/ IsNaN(y) THEN NaN ELSE x + y

\* Math.max(x, y) and Math.min(x, y): NaN if either argument is NaN.
MathMax(x, y) == IF IsNaN(x) \/ IsNaN(y) THEN NaN ELSE IF x >= y THEN x ELSE y

MathMin(x, y) == IF IsNaN(x) \/ IsNaN(y) THEN NaN ELSE IF x <= y THEN x ELSE y

\* x >= y and x <= y of two numbers: false if either is NaN.
Geq(x, y) == ~IsNaN(x) /\ ~IsNaN(y) /\ x >= y

Leq(x, y) == ~IsNaN(x) /\ ~IsNaN(y) /\ x <= y

\* Math.round(p / q) for q > 0: the nearest integer, halves towards +infinity.
RoundDiv(p, q) == IF IsNaN(p) THEN NaN ELSE (2 * p + q) \div (2 * q)

\* Math.floor(p / q) for q > 0.
FloorDiv(p, q) == p \div q

\* Bit i of the natural a.
BitAt(a, i) == (a \div (2 ^ i)) % 2

\* The exclusive or of the four low bits of a and of b.
XorNibble(a, b) ==
  ((BitAt(a, 0) + BitAt(b, 0)) % 2) + 2 * ((BitAt(a, 1) + BitAt(b, 1)) % 2)
  + 4 * ((BitAt(a, 2) + BitAt(b, 2)) % 2) + 8 * ((BitAt(a, 3) + BitAt(b, 3)) % 2)

\* Bitwise exclusive or of two naturals, four bits at a time.
Xor[a \in Nat, b \in Nat] ==
  IF a = 0 THEN b
  ELSE IF b = 0 THEN a
  ELSE XorNibble(a, b) + 16 * Xor[a \div 16, b \div 16]

(***************************************************************************)
(* 32-bit words as <<hi, lo>>.                                             *)
(***************************************************************************)
Half == 65536

\* The 32-bit words.
Words == Nat \X Nat

\* The word of a natural below 2^31.
Word(n) == <<n \div Half, n % Half>>

WordXor[a \in Words, b \in Words] == <<Xor[a[1], b[1]], Xor[a[2], b[2]]>>

\* a + b modulo 2^32.
WordAdd[a \in Words, b \in Words] ==
  LET lo == a[2] + b[2]
  IN  <<(a[1] + b[1] + (lo \div Half)) % Half, lo % Half>>

\* Math.imul(a, b): the low 32 bits of the product.
Imul[a \in Words, b \in Words] ==
  LET a0 == a[2] % 256
      a1 == a[2] \div 256
      p0 == a0 * b[2]                  \* weight 1
      p1 == a1 * b[2]                  \* weight 2^8
      lo == p0 + (p1 % 256) * 256
      hi == (p1 \div 256) + (lo \div Half)
              + (((a[1] % 256) * b[2]) % Half)
              + ((((a[1] \div 256) * b[2]) % 256) * 256)
              + ((a0 * b[1]) % Half)
              + (((a1 * b[1]) % 256) * 256)
  IN  <<hi % Half, lo % Half>>

\* The or of the four low bits of a and of b.
OrNibble(a, b) ==
  ((BitAt(a, 0) + BitAt(b, 0) + 1) \div 2) + 2 * ((BitAt(a, 1) + BitAt(b, 1) + 1) \div 2)
  + 4 * ((BitAt(a, 2) + BitAt(b, 2) + 1) \div 2) + 8 * ((BitAt(a, 3) + BitAt(b, 3) + 1) \div 2)

\* Bitwise or of two naturals, four bits at a time.
Or[a \in Nat, b \in Nat] ==
  IF a = 0 THEN b
  ELSE IF b = 0 THEN a
  ELSE OrNibble(a, b) + 16 * Or[a \div 16, b \div 16]

\* 2^k.
Pow2(k) == 2 ^ k

WordOr[a \in Words, b \in Words] == <<Or[a[1], b[1]], Or[a[2], b[2]]>>

\* t >>> k, for 0 < k < 16.
Shr[t \in Words, k \in Nat] ==
  <<t[1] \div Pow2(k), ((t[1] % Pow2(k)) * Pow2(16 - k)) + (t[2] \div Pow2(k))>>

\* a < b, as unsigned words.
WordLess(a, b) == a[1] < b[1] \/ (a[1] = b[1] /\ a[2] < b[2])

\* (t >>> 0) % 1000000.
WordMod1e6(t) == ((((t[1] * 256) % 1000000) * 256) + t[2]) % 1000000



(***************************************************************************)
(* #randUniform.                                                           *)
(***************************************************************************)
\* 0x9E3779B97F4A7C15 is no double: the literal is 11400714819323199488,
\* whose low 32 bits are 0x7F4A8000.
GoldenLow == <<32586, 32768>>

\* 0x85EBCA6B.
MixMul == <<34283, 51819>>

\* (rngState + 0x9E3779B97F4A7C15) >>> 0.  The sum lies in [2^63, 2^64),
\* where doubles are 2048 apart: the low 11 bits of rngState are rounded
\* away (to nearest, ties to the even multiple) before the wrap to 32 bits.
RngAdvance[st \in Words] ==
  LET low   == st[2] % 2048
      down  == <<st[1], st[2] - low>>
      odd   == ((st[2] \div 2048) % 2) = 1
      up    == low > 1024 \/ (low = 1024 /\ odd)
      r     == IF up THEN WordAdd[down, <<0, 2048>>] ELSE down
  IN  WordAdd[r, GoldenLow]

\* The value #randUniform(seedOffset) returns from the advanced state st,
\* in millionths.
RngValue[st \in Words, seedOffset \in Nat] ==
  LET t == Imul[WordXor[st, Word(seedOffset)], MixMul]
  IN  WordMod1e6(WordXor[t, Shr[t, 13]])

\* The state after k draws.
RngAfter[st \in Words, k \in Nat] == IF k = 0 THEN st ELSE RngAfter[RngAdvance[st], k - 1]

\* The k-th draw (k >= 1) made from state st, with the given seed offset.
Draw[st \in Words, k \in Nat, seedOffset \in Nat] ==
  RngValue[RngAfter[st, k], seedOffset]

(***************************************************************************)
(* #seededRand: a generator whose draws are u / 2^32 for a word u.  A     *)
(* draw is kept as its word u.                                             *)
(***************************************************************************)
\* 0x6D2B79F5.
SeededRandStep == <<27947, 31221>>

\* The word the closure returns from the advanced seed sd.
SeededRandValue[sd \in Words] ==
  LET t1 == Imul[WordXor[sd, Shr[sd, 15]], WordOr[sd, <<0, 1>>]]
      t2 == WordXor[t1, WordAdd[t1, Imul[WordXor[t1, Shr[t1, 7]],
                                         WordOr[t1, <<0, 61>>]]]]
  IN  WordXor[t2, Shr[t2, 14]]

\* The seed after k draws (seed += 0x6D2B79F5 each), as the 32 bits the
\* bitwise operators read: the number seed itself is never wrapped, so k
\* draws add k * 0x6D2B79F5 to it.
SeededRandAfter[sd \in Words, k \in Nat] == WordAdd[sd, Imul[Word(k), SeededRandStep]]

\* The k-th draw (k >= 1) of the closure made with seed sd.
SeededRandDraw[sd \in Words, k \in Nat] ==
  SeededRandValue[SeededRandAfter[sd, k]]

\* Math.floor(r * k) for a draw r = u / 2^32 and a natural k below 2^15.
FloorMul(u, k) == ((u[1] * k) + ((u[2] * k) \div Half)) \div Half

\* r < 0.5, r < 0.6, r < 0.7, r < 0.8 for a draw r = u / 2^32: the word is
\* the least u whose quotient is not below the double of the literal.
BelowHalf(u)         == WordLess(u, <<32768, 0>>)
BelowSixTenths(u)    == WordLess(u, <<39321, 39322>>)
BelowSevenTenths(u)  == WordLess(u, <<45875, 13108>>)
BelowEightTenths(u)  == WordLess(u, <<52428, 52429>>)

(***************************************************************************)
(* Time.                                                                   *)
(***************************************************************************)
\* The instants Date.now() is observed at: 1 January 02:00 UTC (night, the
\* seasonal term near 0) and 1 October 12:00 UTC (day, the seasonal term at
\* its minimum).
Instants == {2, 6564}

\* An explicit event timestamp an external caller passes.
CallerTs == 5

\* Date.prototype.getUTCHours.
UTCHours(t) == t % 24

\* #dayOfYear: whole days since 31 December of the previous year.
DayOfYear(t) == (t \div 24) + 1

\* Math.sin(2 * Math.PI * (doy / 365)) in thousandths, on the days of Instants.
SinMilli(doy) == CASE doy = 1 -> 17 [] doy = 274 -> 0 - 1000

\* new Date(t).toISOString(): a string that determines the instant.
ToISOString(t) == <<"ISO", t>>

(***************************************************************************)
(* Geography and the grid indexer (the h3-js library).  Coordinates are in *)
(* hundredths of a degree.                                                 *)
(***************************************************************************)
CellIds == {"c1", "c2", "cX"}

\* h3.cellToLatLng: the representative coordinate [lat, lng] of a cell.
CellToLatLng(h3) ==
  CASE h3 = "c1" -> <<5008, 1444>>
    [] h3 = "c2" -> <<4920, 1661>>
    [] h3 = "cX" -> <<5077, 1506>>

Abs(n) == IF n < 0 THEN 0 - n ELSE n

\* #h3IndexFromLatLng: the cell whose representative coordinate is within
\* five hundredths of the point.
H3IndexFromLatLng(lat, lng) ==
  CHOOSE h3 \in CellIds :
    /\ Abs(lat - CellToLatLng(h3)[1]) <= 5
    /\ Abs(lng - CellToLatLng(h3)[2]) <= 5

\* Simulation.#BOUNDS.minLat and maxLat.
MinLat == 4855
MaxLat == 5106

\* The coordinate the sampler of generateInitialCells draws from the stream
\* #seededRand(i ^ seed): a function of i ^ seed alone.  The first two
\* points fall in the same cell.
SamplePoints ==
  << [lat |-> 5008, lng |-> 1444],
     [lat |-> 5007, lng |-> 1443],
     [lat |-> 4920, lng |-> 1661] >>

SampleLocation(i, seed) ==
  LET pt == SamplePoints[(Xor[i, seed[2]] % Len(SamplePoints)) + 1]
  IN  [lat |-> pt.lat, lng |-> pt.lng,
       h3 |-> H3IndexFromLatLng(pt.lat, pt.lng)]

(***************************************************************************)
(* Maps (the JavaScript Map objects) as functions on their key sets.       *)
(***************************************************************************)
EmptyMap == <<>>

MapSet(m, k, v) == [q \in DOMAIN m \cup {k} |-> IF q = k THEN v ELSE m[q]]

(***************************************************************************)
(* Category scores.                                                        *)
(***************************************************************************)
RainIntensities == {"NONE", "LOW", "MEDIUM", "HIGH"}

RoadConditions == {"DRY", "WET", "SLIPPERY", "SLIPPERY_ICE", "SLIPPERY_WET"}

RainIntensityToScore(r) ==
  CASE r = "NONE" -> 0
    [] r = "LOW" -> 1
    [] r = "MEDIUM" -> 2
    [] r = "HIGH" -> 4
    [] OTHER -> 0

\* A table that scores SLIPPERY_WET as SLIPPERY_ICE.
RoadScoreWetAsIce(r) ==
  CASE r = "DRY" -> 0
    [] r = "WET" -> 1
    [] r = "SLIPPERY" -> 2
    [] r = "SLIPPERY_ICE" -> 3
    [] r = "SLIPPERY_WET" -> 3
    [] OTHER -> 0

RoadConditionToScore(r) ==
  CASE r = "DRY" -> 0
    [] r = "WET" -> 1
    [] r = "SLIPPERY" -> 2
    [] r = "SLIPPERY_ICE" -> 3
    [] r = "SLIPPERY_WET" -> 2
    [] OTHER -> 0

(***************************************************************************)
(* #generateEnvironmentForLocation(lat, lng, timestampMs, rngSeed), called *)
(* with the generator in state st.  The result carries the generator's     *)
(* state after the call.                                                   *)
(***************************************************************************)
\* A table that takes ice to begin below -5 and below -8 degrees, against
\* which the table of the code is told.
EnvRoadConditionBelow(rainIntensity, temperature) ==
  IF rainIntensity = "MEDIUM" \/ rainIntensity = "HIGH"
  THEN IF rainIntensity = "HIGH" /\ temperature > 0 THEN "SLIPPERY_WET"
       ELSE IF temperature < 0 - 50 THEN "SLIPPERY_ICE"
       ELSE IF temperature <= 0 THEN "SLIPPERY"
       ELSE "WET"
  ELSE IF temperature < 0 - 80 THEN "SLIPPERY_ICE" ELSE "DRY"

\* The road condition the environment model derives from rain and
\* temperature (tenths of a degree).
EnvRoadCondition(rainIntensity, temperature) ==
  IF rainIntensity = "MEDIUM" \/ rainIntensity = "HIGH"
  THEN IF rainIntensity = "HIGH" /\ temperature > 0 THEN "SLIPPERY_WET"
       ELSE IF temperature <= 0 - 50 THEN "SLIPPERY_ICE"
       ELSE IF temperature <= 0 THEN "SLIPPERY"
       ELSE "WET"
  ELSE IF temperature <= 0 - 80 THEN "SLIPPERY_ICE" ELSE "DRY"

\* Math.round((baseline + seasonal + noise) * 10), over the common
\* denominator 251 * 25000: baseline = 6 - 3 * (lat - minLat) / (maxLat -
\* minLat), seasonal = 12 * sin, noise = (u - 0.5) * 4 for the draw u.
EnvTemperature(lat, sin, u) ==
  RoundDiv(60 * ((MaxLat - MinLat) * 25000) - 30 * (lat - MinLat) * 25000
             + 3 * sin * (MaxLat - MinLat) * 1000
             + (u - 500000) * (MaxLat - MinLat),
           (MaxLat - MinLat) * 25000)

\* localHour < 6 || localHour >= 21
EnvIsNight(timestampMs) ==
  ((UTCHours(timestampMs) + 1) % 24) < 6 \/ ((UTCHours(timestampMs) + 1) % 24) >= 21

\* rainChanceBase in millionths: 0.15 + 0.1 * max(0, seasonal / 12).
RainChanceBase(sin) == 150000 + 100 * (IF sin > 0 THEN sin ELSE 0)

EnvRainIntensity(rainChanceBase, rainRoll) ==
  IF rainRoll * 10 < rainChanceBase * 7 THEN "LOW"
  ELSE IF rainRoll * 10 < rainChanceBase * 9 THEN "MEDIUM"
  ELSE IF rainRoll < rainChanceBase THEN "HIGH"
  ELSE "NONE"

\* The environment of a location and the number of draws made for it,
\* draw[k, offset] being what the k-th call #randUniform(offset) returns.
\* fog: the draw of the first operand of || is made only if the night is
\* cold, the draw of the second only if the first operand is false.
EnvironmentOf(draw, lat, lng, timestampMs, rngSeed) ==
  LET sin         == SinMilli(DayOfYear(timestampMs))
      temperature == EnvTemperature(lat, sin, draw[1, rngSeed])
      isNight     == EnvIsNight(timestampMs)
      rainIntensity ==
        EnvRainIntensity(RainChanceBase(sin), draw[2, rngSeed + 1])
      coldNight   == isNight /\ temperature < 60
      nightFog    == coldNight /\ draw[3, rngSeed + 2] < 80000
      \* the draws made before the second operand of ||
      k3          == IF coldNight THEN 3 ELSE 2
      \* the draws made before crossWind
      k4          == IF nightFog THEN k3 ELSE k3 + 1
      fog         == nightFog \/ draw[k3 + 1, rngSeed + 3] < 10000
  IN  [ env |-> [ temperature |-> temperature,
                  is_night |-> isNight,
                  conditions |->
                    [ rain_intensity |-> rainIntensity,
                      road_condition |-> EnvRoadCondition(rainIntensity,
                                                          temperature),
                      fog |-> fog,
                      cross_wind |-> draw[k4 + 1, rngSeed + 4] < 50000 ] ],
        draws |-> k4 + 1 ]

\* The environment of a location and the state of the generator after its
\* draws, the k-th of which is Draw[st, k, offset].
GenerateEnvironmentForLocation(lat, lng, timestampMs, rngSeed, st) ==
  LET draw == [ k \in 1..5, offset \in Nat |-> Draw[st, k, offset] ]
      made == EnvironmentOf(draw, lat, lng, timestampMs, rngSeed)
  IN  [ env |-> made.env, st |-> RngAfter[st, made.draws] ]

(***************************************************************************)
(* Optional properties of an event: a property that is absent (undefined)  *)
(* is a field the record does not have.                                    *)
(***************************************************************************)
\* event.f ?? d
OrDefault(event, f, d) == IF f \in DOMAIN event THEN event[f] ELSE d

\* A vote that counts an absent property as a yes, against which the vote
\* of the code is told.
VoteUnlessFalse(event, f) == IF f \in DOMAIN event /\ ~event[f] THEN 0 ELSE 1

\* event.f ? 1 : 0
Vote(event, f) == IF f \in DOMAIN event /\ event[f] THEN 1 ELSE 0

\* The defaults pushRawEvent gives the optional properties.
DefaultConfidence == 80

DefaultCount == 1

(***************************************************************************)
(* pushRawEvent(h3Index, event) on the accumulator agg, Date.now() = now.  *)
(***************************************************************************)
\* A bucket that starts with one event counted, against which the fresh
\* bucket of the code is told.
NewBucketCounted ==
  [ sumTemp |-> 0, count |-> 1, lastTs |-> 0, sumConfidence |-> 0,
    sumCounts |-> 0, fogVotes |-> 0, crossWindVotes |-> 0,
    rainScore |-> 0, roadScore |-> 0 ]

NewBucket ==
  [ sumTemp |-> 0, count |-> 0, lastTs |-> 0, sumConfidence |-> 0,
    sumCounts |-> 0, fogVotes |-> 0, crossWindVotes |-> 0,
    rainScore |-> 0, roadScore |-> 0 ]

MergeEvent(bucket, event, now) ==
  LET ts == OrDefault(event, "timestamp", now)
  IN  [ sumTemp        |-> bucket.sumTemp + event.temperature,
        count          |-> bucket.count + 1,
        lastTs         |-> IF bucket.lastTs >= ts THEN bucket.lastTs ELSE ts,
        sumConfidence  |-> Add(bucket.sumConfidence,
                               OrDefault(event, "confidence", DefaultConfidence)),
        sumCounts      |-> Add(bucket.sumCounts,
                               OrDefault(event, "count", DefaultCount)),
        fogVotes       |-> bucket.fogVotes + Vote(event, "fog"),
        crossWindVotes |-> bucket.crossWindVotes + Vote(event, "cross_wind"),
        rainScore      |-> bucket.rainScore + RainIntensityToScore(
                               OrDefault(event, "rain_intensity", "NONE")),
        roadScore      |-> bucket.roadScore + RoadConditionToScore(
                               OrDefault(event, "road_condition", "DRY")) ]

\* A push that starts the bucket of the cell afresh, against which the
\* accumulation of the code is told.
PushRawEventReplacing(agg, h3Index, event, now) ==
  MapSet(agg, h3Index, MergeEvent(NewBucket, event, now))

PushRawEvent(agg, h3Index, event, now) ==
  LET bucket == IF h3Index \in DOMAIN agg THEN agg[h3Index] ELSE NewBucket
  IN  MapSet(agg, h3Index, MergeEvent(bucket, event, now))

(***************************************************************************)
(* #applyRawAggToSnapshotBatch.                                            *)
(***************************************************************************)
AtLeastOne(n) == IF n >= 1 THEN n ELSE 1

\* Rain intensity with strict thresholds, against which the thresholds of
\* the code are told.
ClassifyRainStrict(rainScore, count) ==
  LET n == IF count >= 1 THEN count ELSE 1
  IN  IF 10 * rainScore > 30 * n THEN "HIGH"
      ELSE IF 10 * rainScore > 12 * n THEN "MEDIUM"
      ELSE IF 10 * rainScore > 6 * n THEN "LOW"
      ELSE "NONE"

\* rain intensity by the mean rain score rainScore / max(1, count).
ClassifyRain(rainScore, count) ==
  LET n == AtLeastOne(count)
  IN  IF 10 * rainScore >= 30 * n THEN "HIGH"
      ELSE IF 10 * rainScore >= 12 * n THEN "MEDIUM"
      ELSE IF 10 * rainScore >= 6 * n THEN "LOW"
      ELSE "NONE"

\* road condition by the mean road score roadScore / max(1, count).
ClassifyRoad(roadScore, count) ==
  LET n == AtLeastOne(count)
  IN  IF 10 * roadScore >= 25 * n THEN "SLIPPERY_ICE"
      ELSE IF 10 * roadScore >= 18 * n THEN "SLIPPERY"
      ELSE IF 10 * roadScore >= 8 * n THEN "WET"
      ELSE "DRY"

\* fogVotes / max(1, count) >= 0.5 and crossWindVotes / max(1, count) >= 0.2.
FogMajority(fogVotes, count) == 10 * fogVotes >= 5 * AtLeastOne(count)

\* A cross wind that needs more than a fifth of the votes, against which
\* the share of the code is told.
CrossWindAboveFifth(crossWindVotes, count) ==
  10 * crossWindVotes > 2 * AtLeastOne(count)

CrossWindShare(crossWindVotes, count) ==
  10 * crossWindVotes >= 2 * AtLeastOne(count)

\* Math.max(0, Math.min(100, Math.round(sumConfidence / max(1, count)))).
ClampConfidence(sumConfidence, count) ==
  MathMax(0, MathMin(100, RoundDiv(sumConfidence, AtLeastOne(count))))

\* Math.max(1, Math.round(sumCounts)).
ClampTotalCount(sumCounts) == MathMax(1, RoundDiv(sumCounts, 1))

\* An is_night taken from the wall clock for every cell, against which the
\* is_night of the code is told.
IsNightByClock(h3index, snap, now) == (UTCHours(now) + 1) % 24 < 6

\* this.#snapshot.get(h3index)?.environment.is_night ??
\*   ((new Date().getUTCHours() + 1) % 24 < 6)
IsNightAtFlush(h3index, snap, now) ==
  IF h3index \in DOMAIN snap
  THEN snap[h3index].environment.is_night
  ELSE (UTCHours(now) + 1) % 24 < 6

\* The cell the flush builds for h3index from its bucket; snap is the
\* snapshot being replaced.
SummariseBucket(h3index, agg, snap, now) ==
  [ location    |-> [ h3_index |-> h3index ],
    timeframe   |-> [ last |-> ToISOString(IF agg.lastTs # 0 THEN agg.lastTs
                                                             ELSE now) ],
    metadata    |-> [ confidence  |-> ClampConfidence(agg.sumConfidence, agg.count),
                      total_count |-> ClampTotalCount(agg.sumCounts) ],
    environment |->
      [ temperature |-> RoundDiv(agg.sumTemp, AtLeastOne(agg.count)),
        is_night    |-> IsNightAtFlush(h3index, snap, now),
        conditions  |-> [ rain_intensity |-> ClassifyRain(agg.rainScore, agg.count),
                          road_condition |-> ClassifyRoad(agg.roadScore, agg.count),
                          fog            |-> FogMajority(agg.fogVotes, agg.count),
                          cross_wind     |-> CrossWindShare(agg.crossWindVotes,
                                                            agg.count) ] ] ]

\* An ingestion that also writes the event through to the snapshot,
\* against which the ingestion of the code is told.
PushWritingThrough(st, h3Index, event, now) ==
  [ st EXCEPT !.rawAgg = PushRawEvent(@, h3Index, event, now),
              !.snapshot = MapSet(@, h3Index,
                                  SummariseBucket(h3Index,
                                                  MergeEvent(NewBucket, event, now),
                                                  @, now)) ]

\* pushRawEvent(h3Index, event) on the stores of the simulation: the
\* record of #rawAgg, #snapshot, #hotspots and #stats.
PushRawEventOnStores(st, h3Index, event, now) ==
  [ st EXCEPT !.rawAgg = PushRawEvent(@, h3Index, event, now) ]

\* A build that carries the cells of the old snapshot forward, against
\* which the build of the code is told.
BuildCarryingForward(agg, snap, now) ==
  [ h3index \in DOMAIN agg \cup DOMAIN snap |->
      IF h3index \in DOMAIN agg
      THEN SummariseBucket(h3index, agg[h3index], snap, now)
      ELSE snap[h3index] ]

\* A build that stamps every cell with the id of one of them, against
\* which the ids the code gives the cells are told.
BuildUnderOneId(agg, snap, now) ==
  [ h3index \in DOMAIN agg |->
      SummariseBucket(CHOOSE k \in DOMAIN agg : TRUE, agg[h3index], snap, now) ]

\* The loop over #rawAgg.entries(): the new mapping, built apart.
BuildNewSnapshot(agg, snap, now) ==
  [ h3index \in DOMAIN agg |-> SummariseBucket(h3index, agg[h3index], snap, now) ]

\* An update of the old mapping in place, against which the replacement
\* of the code is told.
MergeIntoSnapshot(snap, newSnapshot) ==
  [ k \in DOMAIN snap \cup DOMAIN newSnapshot |->
      IF k \in DOMAIN newSnapshot THEN newSnapshot[k] ELSE snap[k] ]

\* this.#snapshot = newSnapshot
ReplaceSnapshot(snap, newSnapshot) == newSnapshot

\* A clear that leaves the accumulator as it is, against which the clear
\* of the code is told.
KeepRawAgg(agg) == agg

\* this.#rawAgg.clear()
ClearRawAgg(agg) == EmptyMap

\* The statements in an order that clears first, against which the order
\* of the code is told.
FlushStatementsClearFirst == <<"clear", "build", "publish">>

\* The statements of #applyRawAggToSnapshotBatch, in the order they run:
\* the loop that fills newSnapshot, the assignment to #snapshot, the clear.
FlushStatements == <<"build", "publish", "clear">>

\* The effect of one statement on m, the record of #rawAgg, #snapshot, the
\* local newSnapshot (a new Map at the start) and the local now.
FlushStatement(stmt, m) ==
  CASE stmt = "build" ->
         [ m EXCEPT !.newSnapshot = BuildNewSnapshot(m.rawAgg, m.snapshot, m.now) ]
    [] stmt = "publish" ->
         [ m EXCEPT !.snapshot = ReplaceSnapshot(m.snapshot, m.newSnapshot) ]
    [] stmt = "clear" ->
         [ m EXCEPT !.rawAgg = ClearRawAgg(m.rawAgg) ]

\* #applyRawAggToSnapshotBatch while it runs (pc statements done; before
\* and prev are #rawAgg and #snapshot at the call), and when it does not.
FlushFrame(pc, m, before, prev) ==
  [ active |-> TRUE, pc |-> pc, now |-> m.now, newSnapshot |-> m.newSnapshot,
    before |-> before, prev |-> prev ]

NotFlushing == [ active |-> FALSE ]

(***************************************************************************)
(* generateInitialCells.                                                   *)
(***************************************************************************)
\* A sampler that stops one location short.
SampleOneLess(count, seed) ==
  [ i \in 1..(count - 1) |-> SampleLocation(i - 1, seed) ]

\* this.#cellLocations = new Array(count).fill(null).map(...)
SampleLocations(count, seed) ==
  [ i \in 1..count |-> SampleLocation(i - 1, seed) ]

\* The cell of the baseline and the bucket the accumulator is seeded with,
\* for the location loc, the environment env and the two draws of the
\* metadata.
BaselineCell(loc, now, env, confidence, total_count) ==
  [ cell |-> [ location    |-> [ h3_index |-> loc.h3 ],
               timeframe   |-> [ last |-> ToISOString(now) ],
               metadata    |-> [ confidence |-> confidence,
                                 total_count |-> total_count ],
               environment |-> env ],
    seeded |-> [ sumTemp        |-> env.temperature,
                 count          |-> 1,
                 lastTs         |-> now,
                 sumConfidence  |-> confidence,
                 sumCounts      |-> total_count,
                 fogVotes       |-> IF env.conditions.fog THEN 1 ELSE 0,
                 crossWindVotes |-> IF env.conditions.cross_wind THEN 1 ELSE 0,
                 rainScore      |-> RainIntensityToScore(
                                      env.conditions.rain_intensity),
                 roadScore      |-> RoadConditionToScore(
                                      env.conditions.road_condition) ] ]

\* One pass of the loop over #cellLocations, for the location loc at index
\* i (0-based): the snapshot, the accumulator and the state of the
\* generator after the pass.
BaselinePass(i, loc, now, st, snap, agg) ==
  LET e    == GenerateEnvironmentForLocation(loc.lat, loc.lng, now, i, st)
      made == BaselineCell(loc, now, e.env,
                70 + FloorDiv(Draw[e.st, 1, i] * 30, 1000000),
                AtLeastOne(1 + FloorDiv(Draw[e.st, 2, i + 1] * 200, 1000000)))
  IN  [ st       |-> RngAfter[e.st, 2],
        snapshot |-> MapSet(snap, loc.h3, made.cell),
        rawAgg   |-> MapSet(agg, loc.h3, made.seeded) ]

\* The loop over #cellLocations from index i (0-based) on.  p ranges over
\* the one outcome of the pass at i.
RECURSIVE BaselineLoop(_, _, _, _, _, _)
BaselineLoop(i, locs, now, st, snap, agg) ==
  IF i >= Len(locs) THEN [ st |-> st, snapshot |-> snap, rawAgg |-> agg ]
  ELSE
    CHOOSE b \in
      { BaselineLoop(i + 1, locs, now, p.st, p.snapshot, p.rawAgg) :
        p \in { BaselinePass(i, locs[i + 1], now, st, snap, agg) } } :
      TRUE

(***************************************************************************)
(* #generateHotspotStatistics(r, total_count, time_impact).  A key "HH:MM" *)
(* of by_time is the pair <<hour, minute>>.                                *)
(***************************************************************************)
DayCodes == <<"Mo", "Tu", "We", "Th", "Fr", "Sa", "Su">>

\* The 48 keys the first loop initialises by_time with.
HalfHours == { <<i \div 2, (i % 2) * 30>> : i \in 0..47 }

TimeStr(hour, minute) == <<hour, minute>>

\* by_week = {}, by_day all zero, by_time all zero.
EmptyDistribution ==
  [ by_week |-> EmptyMap,
    by_day  |-> [ d \in { DayCodes[i] : i \in 1..7 } |-> 0 ],
    by_time |-> [ k \in HalfHours |-> 0 ] ]

\* m[k]++ : a key that is absent reads undefined, and undefined + 1 is NaN.
Increment(m, k) == MapSet(m, k, IF k \in DOMAIN m THEN Add(m[k], 1) ELSE NaN)

\* m[k] = (m[k] ?? 0) + 1
IncrementOrOne(m, k) == MapSet(m, k, IF k \in DOMAIN m THEN Add(m[k], 1) ELSE 1)

\* An hour left as it is, against which the wrap of the code is told.
WrapHourNever(hour) == hour

\* if (hour >= 24) hour -= 24
WrapHour(hour) == IF hour >= 24 THEN hour - 24 ELSE hour

\* One pass of the while loop, the closure's next draws being d[1], d[2],
\* ...; used is the number of draws the pass made.
StatIteration(dist, time_impact, d) ==
  LET week     == 1 + FloorMul(d[1], 52)
      dayIdx   == IF BelowSevenTenths(d[2]) THEN FloorMul(d[3], 5)
                  ELSE 5 + FloorMul(d[3], 2)
      day      == DayCodes[dayIdx + 1]
      timeRoll == d[4]
      rush     == time_impact >= 3 /\ BelowSixTenths(timeRoll)
      night    == ~rush /\ time_impact >= 4 /\ BelowEightTenths(timeRoll)
      hour     == IF rush
                  THEN IF BelowHalf(d[5]) THEN 7 + FloorMul(d[6], 2)
                       ELSE 16 + FloorMul(d[6], 3)
                  ELSE IF night THEN WrapHour(22 + FloorMul(d[5], 6))
                  ELSE FloorMul(d[5], 24)
      hourDraws == IF rush THEN 2 ELSE 1
      minute   == IF BelowHalf(d[4 + hourDraws + 1]) THEN 0 ELSE 30
  IN  [ dist |-> [ by_week |-> IncrementOrOne(dist.by_week, week),
                   by_day  |-> Increment(dist.by_day, day),
                   by_time |-> Increment(dist.by_time, TimeStr(hour, minute)) ],
        used |-> 5 + hourDraws ]

\* The most draws one pass makes.
MaxStatDraws == 7

\* The sum of the values of a map.
RECURSIVE SumOver(_, _)
SumOver(m, keys) ==
  IF keys = {} THEN 0
  ELSE LET k == CHOOSE q \in keys : TRUE
       IN  Add(m[k], SumOver(m, keys \ {k}))

\* The sum of the values of m; the keys that hold 0 add nothing.
SumValues(m) == SumOver(m, { k \in DOMAIN m : m[k] # 0 })

(***************************************************************************)
(* generateInitialHotspots.  Latitudes and longitudes of hotspots are in   *)
(* millionths of a degree.  sampleAlongPolyline is reduced to the choice   *)
(* of an end of the polyline; the properties std_dev, timeframe, vehicle   *)
(* and environment of a hotspot are left out, their draws are made.        *)
(***************************************************************************)
\* The first and the last vertex of each polyline of highways.
HighwayEnds ==
  << << <<50075500, 14437800>>, <<49820900, 18262500>> >>,
     << <<49195100, 16606800>>, <<48759500, 16882000>> >>,
     << <<50075500, 14437800>>, <<48974700, 14474700>> >>,
     << <<50075500, 14437800>>, <<49663100, 12777700>> >>,
     << <<50075500, 14437800>>, <<50079600, 12373900>> >>,
     << <<50075500, 14437800>>, <<50492000, 13025800>> >>,
     << <<50075500, 14437800>>, <<50901300, 14254000>> >>,
     << <<50075500, 14437800>>, <<50767000, 15067000>> >>,
     << <<50075500, 14437800>>, <<49517800, 17583300>> >>,
     << <<49195100, 16606800>>, <<48805200, 16637600>> >>,
     << <<49593800, 17250900>>, <<49068100, 17463400>> >> >>

SampleAlongPolyline(poly, u) == IF BelowHalf(u) THEN poly[1] ELSE poly[2]

RiskTypes == <<"BDV", "VA", "GW", "HL", "SR", "FOG", "HR", "EB", "CW", "PH", "BUM">>

\* The bytes of a word, least significant first.
Bytes(u) == <<u[2] % 256, u[2] \div 256, u[1] % 256, u[1] \div 256>>

\* a[k + 1 - j] * b[j], or 0 where one of the two bytes does not exist.
ConvTerm[a \in Seq(Nat), b \in Seq(Nat), k \in Nat, j \in Nat] ==
  IF j <= Len(b) /\ (k + 1 - j) \in 1..Len(a) THEN a[k + 1 - j] * b[j] ELSE 0

\* The k-th column of the long multiplication of a by b, for b of at most
\* four bytes: the sum of the a[i] * b[j] with i + j = k + 1.
ConvSum[a \in Seq(Nat), b \in Seq(Nat), k \in Nat] ==
  ConvTerm[a, b, k, 1] + ConvTerm[a, b, k, 2] + ConvTerm[a, b, k, 3] + ConvTerm[a, b, k, 4]

\* The bytes of columns cols from position i on, carry coming in.
Propagate[cols \in Seq(Nat), i \in Nat, carry \in Nat] ==
  IF i > Len(cols) THEN <<>>
  ELSE <<(cols[i] + carry) % 256>>
       \o Propagate[cols, i + 1, (cols[i] + carry) \div 256]

\* The product of two naturals given by their bytes.
BigMul[a \in Seq(Nat), b \in Seq(Nat)] ==
  Propagate[[ k \in 1..(Len(a) + Len(b)) |-> ConvSum[a, b, k] ], 1, 0]

\* Math.floor(r ** 3 * 500) for a draw r = u / 2^32: u^3 * 500 / 2^96.
FloorCubeTimes500[u \in Words] ==
  LET c == BigMul[BigMul[BigMul[Bytes(u), Bytes(u)], Bytes(u)], <<244, 1>>]
  IN  c[13] + 256 * c[14]

\* The number of draws the body of the for loop makes before the call of
\* #generateHotspotStatistics.
HotspotDraws == 26

\* const r = this.#seededRand(i ^ this.#seed ^ 0xABCDEF)
HotspotSeed(i, seed) == WordXor[WordXor[Word(i), seed], <<171, 52719>>]

\* total_count and time_of_day_impact of the i-th hotspot.
HotspotTotalCount(i, seed) == 5 + FloorCubeTimes500[SeededRandDraw[HotspotSeed(i, seed), 5]]

HotspotTimeImpact(i, seed) == 1 + FloorMul(SeededRandDraw[HotspotSeed(i, seed), 9], 5)

\* now - Math.floor(r() * 30 * 24 * 3600 * 1000), in the whole hours instants
\* are counted in: the step back is Math.floor(r() * 30 * 24) hours and a
\* rest below an hour.
HotspotLastTs(now, u) == now - FloorMul(u, 30 * 24)

\* A step back of a month and no more, against which the firstTs of the
\* code is told.
HotspotFirstTsWithinMonth(lastTs, u) == lastTs - FloorMul(u, 30 * 24)

\* lastTs - Math.floor((30 + r() * 300) * 24 * 3600 * 1000), in whole hours.
HotspotFirstTs(lastTs, u) == lastTs - (30 * 24 + FloorMul(u, 300 * 24))

\* The hotspot a pass of the loop builds from the draws of r, r[k] being
\* the k-th of them; now is what Date.now() and uuid what
\* crypto.randomUUID() return in the pass, statistics what
\* #generateHotspotStatistics returns.  The fields left out (std_dev,
\* vehicle, environment) are functions of the draws of r alone.
BuildHotspotOf(r, now, uuid, statistics) ==
  LET hIdx == FloorMul(r[1], Len(HighwayEnds))
      base == SampleAlongPolyline(HighwayEnds[hIdx + 1], r[2])
  IN  [ location |-> [ latitude  |-> base[1] + FloorMul(r[3], 1000) - 500,
                       longitude |-> base[2] + FloorMul(r[4], 1000) - 500 ],
        metadata |-> [ id |-> uuid,
                       risk |-> [ type |-> RiskTypes[FloorMul(r[17], Len(RiskTypes)) + 1],
                                  importance |-> 1 + FloorMul(r[18], 5),
                                  confidence |-> 50 + FloorMul(r[19], 50),
                                  residual_confidence |-> 10 + FloorMul(r[20], 80) ],
                       total_count |-> 5 + FloorCubeTimes500[r[5]],
                       weather_impact |-> 1 + FloorMul(r[8], 5),
                       time_of_day_impact |-> 1 + FloorMul(r[9], 5) ],
        timeframe |-> [ first |-> ToISOString(HotspotFirstTs(HotspotLastTs(now, r[6]), r[7])),
                        last  |-> ToISOString(HotspotLastTs(now, r[6])) ],
        statistics |-> statistics ]

\* The hotspot of the i-th pass: r is the generator of HotspotSeed(i, seed).
BuildHotspot(i, seed, now, uuid, statistics) ==
  LET sd == HotspotSeed(i, seed)
  IN  BuildHotspotOf([ k \in 1..HotspotDraws |-> SeededRandDraw[sd, k] ],
                     now, uuid, statistics)

\* A key of all six decimals of the coordinates, against which the key of
\* the code is told.
HotspotKeySixDecimals(hotspot) ==
  <<hotspot.location.latitude, hotspot.location.longitude>>

\* `${latitude.toFixed(5)}_${longitude.toFixed(5)}`
HotspotKey(hotspot) ==
  <<RoundDiv(hotspot.location.latitude, 10), RoundDiv(hotspot.location.longitude, 10)>>

\* The for loop of generateInitialHotspots at the call of
\* #generateHotspotStatistics of its i-th pass, and when it is not running.
GenFrame(i, seed, now, uuid) ==
  [ active |-> TRUE, i |-> i, now |-> now, uuid |-> uuid,
    total_count |-> HotspotTotalCount(i, seed),
    time_impact |-> HotspotTimeImpact(i, seed),
    remaining   |-> HotspotTotalCount(i, seed),
    dist        |-> EmptyDistribution,
    sd          |-> SeededRandAfter[HotspotSeed(i, seed), HotspotDraws] ]

Idle == [ active |-> FALSE ]

(***************************************************************************)
(* addOrMergeStatistics and its helpers.  An update is a record with the   *)
(* properties the caller gave; null is its own value.                      *)
(***************************************************************************)
Null == [ kind |-> "null" ]

\* #generateInitialStatisticsPlaceholder()
GenerateInitialStatisticsPlaceholder ==
  [ temperature |-> [ lowest |-> Null, highest |-> Null ],
    day_counts  |-> [ rain |-> [ low |-> 0, medium |-> 0, high |-> 0 ],
                      slippery_road |-> 0, fog |-> 0, cross_wind |-> 0 ] ]

\* A merge of counts that never takes the value of the update.
KeepPrevious(update, a, b, prev) == prev

\* update.a?.b ?? prev, for a number b (the type has no null there)
Opt2(update, a, b, prev) ==
  IF a \in DOMAIN update /\ b \in DOMAIN update[a]
  THEN update[a][b] ELSE prev

\* update.temperature?.b ?? prev, for an extreme b that may be null
OptExtreme(update, b, prev) ==
  IF "temperature" \in DOMAIN update /\ b \in DOMAIN update.temperature
     /\ update.temperature[b] # Null
  THEN update.temperature[b] ELSE prev

\* update.day_counts?.rain?.b ?? prev
OptRain(update, b, prev) ==
  IF "day_counts" \in DOMAIN update /\ "rain" \in DOMAIN update.day_counts
  THEN Opt2(update.day_counts, "rain", b, prev) ELSE prev

\* #mergeStatistics(prev, update)
MergeStatistics(prev, update) ==
  [ temperature |->
      [ lowest  |-> OptExtreme(update, "lowest", prev.temperature.lowest),
        highest |-> OptExtreme(update, "highest", prev.temperature.highest) ],
    day_counts |->
      [ rain |-> [ low    |-> OptRain(update, "low", prev.day_counts.rain.low),
                   medium |-> OptRain(update, "medium", prev.day_counts.rain.medium),
                   high   |-> OptRain(update, "high", prev.day_counts.rain.high) ],
        slippery_road |-> Opt2(update, "day_counts", "slippery_road",
                               prev.day_counts.slippery_road),
        fog        |-> Opt2(update, "day_counts", "fog", prev.day_counts.fog),
        cross_wind |-> Opt2(update, "day_counts", "cross_wind",
                            prev.day_counts.cross_wind) ] ]

\* addOrMergeStatistics(h3Index, stats) on the cache st.
AddOrMergeStatisticsOn(st, h3Index, update) ==
  LET prev == IF h3Index \in DOMAIN st THEN st[h3Index]
              ELSE GenerateInitialStatisticsPlaceholder
  IN  MapSet(st, h3Index, MergeStatistics(prev, update))

(***************************************************************************)
(* #produceRandomRawEvent and the production timer's callback.             *)
(***************************************************************************)
\* now % 100000: an instant is a whole number of hours, 3600000 ms each.
NowMod100000(now) == ((now % 1000) * 3600000) % 100000

\* The road condition of a produced event; temp in units of 1e-7 degree.
ProducedRoadCondition(rain, temp) ==
  IF rain # "NONE"
  THEN (IF temp <= 0 THEN "SLIPPERY" ELSE "WET")
  ELSE (IF temp <= 0 - 80000000 THEN "SLIPPERY_ICE" ELSE "DRY")

\* The rain intensity of a produced event.
ProducedRain(heavy, rainRoll) ==
  IF heavy THEN (IF rainRoll < 700000 THEN "HIGH" ELSE "MEDIUM")
  ELSE (IF rainRoll < 20000 THEN "LOW" ELSE "NONE")

\* The event #produceRandomRawEvent pushes for the cell at index idx, the
\* k-th draw after that of idx being Draw[st1, k, offset]; hasBase tells
\* whether the snapshot has the cell, and base is its temperature then.
\* Temperatures are in units of 1e-7 degree until they are rounded.
ProducedEvent(idx, hasBase, base, st1, now) ==
  LET seed  == Xor[idx, NowMod100000(now)]
      \* the draws made before that of the jitter
      k     == IF hasBase THEN 0 ELSE 1
      temp0 == IF hasBase THEN base * 1000000
               ELSE 50000000 + 150 * Draw[st1, 1, seed]
      temp  == temp0 + 6 * (Draw[st1, k + 1, seed + 1] - 500000)
      rain  == ProducedRain(Draw[st1, k + 4, seed + 4] < 2000,
                            Draw[st1, k + 5, seed + 5])
  IN  [ event |->
          [ temperature    |-> RoundDiv(temp, 1000000),
            confidence     |-> 60 + FloorDiv(Draw[st1, k + 6, seed + 6] * 40,
                                             1000000),
            count          |-> 1,
            fog            |-> Draw[st1, k + 2, seed + 2] < 10000,
            cross_wind     |-> Draw[st1, k + 3, seed + 3] < 20000,
            rain_intensity |-> rain,
            road_condition |-> ProducedRoadCondition(rain, temp),
            timestamp      |-> now ],
        st |-> RngAfter[st1, k + 6] ]

\* #produceRandomRawEvent once the index idx is drawn, st1 being the state
\* of the generator after that draw.
ProduceForIndex(agg, snap, locs, idx, st1, now) ==
  LET loc     == locs[idx + 1]
      hasBase == loc.h3 \in DOMAIN snap
      e       == ProducedEvent(idx, hasBase,
                   IF hasBase THEN snap[loc.h3].environment.temperature ELSE 0,
                   st1, now)
  IN  [ rawAgg |-> PushRawEvent(agg, loc.h3, e.event, now), st |-> e.st ]

\* The state [rawAgg, st] after one #produceRandomRawEvent.
ProduceRandomRawEvent(agg, snap, locs, st, now) ==
  IF Len(locs) = 0 THEN [ rawAgg |-> agg, st |-> st ]
  ELSE ProduceForIndex(agg, snap, locs,
                       FloorDiv(Draw[st, 1, 0] * Len(locs), 1000000),
                       RngAdvance[st], now)

\* Math.max(1, Math.floor(Math.sqrt(targetCellCount) / 50))
BatchSize(targetCellCount) ==
  AtLeastOne(CHOOSE b \in 0..targetCellCount :
               /\ 2500 * b * b <= targetCellCount
               /\ 2500 * (b + 1) * (b + 1) > targetCellCount)

\* for (let k = 0; k < batchSize; k++) this.#produceRandomRawEvent(); one
\* ranges over the one outcome of a call.
RECURSIVE ProduceBatch(_, _, _, _, _, _)
ProduceBatch(k, agg, snap, locs, st, now) ==
  IF k = 0 THEN [ rawAgg |-> agg, st |-> st ]
  ELSE CHOOSE b \in
         { ProduceBatch(k - 1, one.rawAgg, snap, locs, one.st, now) :
           one \in { ProduceRandomRawEvent(agg, snap, locs, st, now) } } :
         TRUE

(***************************************************************************)
(* Bounding-box queries.                                                   *)
(***************************************************************************)
\* A containment test that leaves the maxLat edge out.
InBboxBelowMaxLat(lat, lng, bbox) ==
  Geq(lat, bbox[2]) /\ ~Geq(lat, bbox[4]) /\ Geq(lng, bbox[1]) /\ Leq(lng, bbox[3])

\* lat >= minLat && lat <= maxLat && lng >= minLng && lng <= maxLng for
\* bbox = [minLng, minLat, maxLng, maxLat].
InBbox(lat, lng, bbox) ==
  Geq(lat, bbox[2]) /\ Leq(lat, bbox[4]) /\ Geq(lng, bbox[1]) /\ Leq(lng, bbox[3])

\* !bbox || bbox.length !== 4
BadBbox(bbox) == Len(bbox) # 4

InvalidBboxError ==
  "Invalid bounding box provided. Must be an array of [minLng, minLat, maxLng, maxLat]."

\* What a call returns: a value, undefined, or a thrown error.
Returned(v) == [ kind |-> "value", value |-> v ]
Undefined == [ kind |-> "undefined" ]
Thrown(msg) == [ kind |-> "throw", error |-> msg ]

\* What a getter without structuredClone hands out: the stored object.
SameObject(v) == [ shared |-> v ]

\* structuredClone(v): a copy equal to v, sharing nothing with it.
StructuredClone(v) == v

\* The value x a caller holds is the stored object and no copy of it.
Aliased(x) == "shared" \in DOMAIN x

\* What a caller's assignments leave of an object.
Scribbled == [ kind |-> "scribbled" ]

\* The store after a caller has written to every element of the returned
\* record, and after a caller has written to the one returned element x.
ScribbleThrough(store, returned) ==
  [ k \in DOMAIN store |->
      IF k \in DOMAIN returned /\ Aliased(returned[k])
      THEN Scribbled ELSE store[k] ]

ScribbleOne(store, k, x) ==
  IF k \in DOMAIN store /\ Aliased(x) THEN MapSet(store, k, Scribbled) ELSE store

\* getSnapshot()
GetSnapshotResult(snap) ==
  Returned([ k \in DOMAIN snap |-> StructuredClone(snap[k]) ])

\* getSnapshotInBbox(bbox)
GetSnapshotInBboxResult(snap, bbox) ==
  IF BadBbox(bbox) THEN Thrown(InvalidBboxError)
  ELSE LET inside == { h3 \in DOMAIN snap :
                         InBbox(CellToLatLng(h3)[1], CellToLatLng(h3)[2], bbox) }
       IN  Returned([ h3 \in inside |-> StructuredClone(snap[h3]) ])

\* getCell(h3Index) without statistics
GetCellResult(snap, h3Index) ==
  IF h3Index \notin DOMAIN snap THEN Undefined
  ELSE Returned(StructuredClone(snap[h3Index]))

\* getHotspots()
GetHotspotsResult(hs) ==
  Returned([ k \in DOMAIN hs |-> StructuredClone(hs[k]) ])

\* getHotspotsInBbox(bbox)
GetHotspotsInBboxResult(hs, bbox) ==
  IF BadBbox(bbox) THEN Thrown(InvalidBboxError)
  ELSE LET inside == { id \in DOMAIN hs :
                         InBbox(hs[id].location.latitude,
                                hs[id].location.longitude, bbox) }
       IN  Returned([ id \in inside |-> StructuredClone(hs[id]) ])

(***************************************************************************)
(* The query string of GET /mock/v1/road-safety/hotspots and its schema.   *)
(* A parameter is absent or a list of the pieces between its commas; a     *)
(* piece is the text of a number, other text, or blank.  Coordinates are   *)
(* in millionths of a degree.                                              *)
(***************************************************************************)
Num(n) == [ kind |-> "number", value |-> n ]
Text(t) == [ kind |-> "text", text |-> t ]
Blank == [ kind |-> "blank" ]
Absent == [ kind |-> "absent" ]
Given(pieces) == [ kind |-> "given", pieces |-> pieces ]

\* Number(piece)
ToNumber(piece) == IF piece.kind = "number" THEN piece.value ELSE NaN

\* stringListSchema: split, trim, drop the empty pieces.
StringListSchema(pieces) == SelectSeq(pieces, LAMBDA x : x.kind # "blank")

Issue(msg) == [ kind |-> "issue", message |-> msg ]
Parsed(v) == [ kind |-> "parsed", value |-> v ]

\* bboxSchema, for a list of at most four pieces: the four items of the
\* tuple are numbers, and none of them is NaN.
BboxSchema(param) ==
  IF param = Absent THEN Issue("bbox is required")
  ELSE LET list == StringListSchema(param.pieces)
           arr  == [ i \in DOMAIN list |-> ToNumber(list[i]) ]
       IN  IF Len(arr) < 4
           THEN Issue("bbox must contain exactly 4 coordinates")
           ELSE IF \E i \in 1..4 : IsNaN(arr[i])
           THEN Issue("bbox must contain only valid numbers")
           ELSE Parsed(SubSeq(arr, 1, 4))

\* min_confidence: optional with the default "0", an integer of 0..100.
MinConfidenceSchema(param) ==
  LET n == IF param = Absent THEN 0 ELSE ToNumber(param.pieces[1])
  IN  IF ~IsNaN(n) /\ n >= 0 /\ n <= 100 THEN Parsed(n)
      ELSE Issue("min_confidence must be an integer between 0 and 100")

\* type: optional, the texts of the list.
TypeSchema(param) ==
  IF param = Absent THEN Absent
  ELSE LET list == StringListSchema(param.pieces)
       IN  Given({ list[i].text : i \in DOMAIN list })

\* hotspot.metadata.risk.confidence > searchParams.min_confidence &&
\* (searchParams.type ? searchParams.type.includes(risk.type) : true)
EndpointKeeps(hotspot, min_confidence, type) ==
  /\ hotspot.metadata.risk.confidence > min_confidence
  /\ IF type = Absent THEN TRUE ELSE hotspot.metadata.risk.type \in type.pieces

JsonResponse(body) == [ kind |-> "response", body |-> body ]

\* The handler of the route: the parse, the bounding-box read, the filter;
\* an error of any of them is the body of the response.
HotspotsRoute(hs, bbox, min_confidence, type) ==
  LET b == BboxSchema(bbox)
      c == MinConfidenceSchema(min_confidence)
      t == TypeSchema(type)
  IN  IF b.kind = "issue" THEN JsonResponse(b)
      ELSE IF c.kind = "issue" THEN JsonResponse(c)
      ELSE LET found == GetHotspotsInBboxResult(hs, b.value)
           IN  IF found.kind = "throw" THEN JsonResponse(found)
               ELSE JsonResponse({ found.value[id] : id \in
                      { k \in DOMAIN found.value :
                          EndpointKeeps(found.value[k], c.value, t) } })

(***************************************************************************)
(* getCell with statistics.  A product of a count and a draw is rounded as *)
(* the exact quotient is.                                                  *)
(***************************************************************************)
\* Math.round(baseDays * (num / den) * u) for a draw u in millionths.
RoundShare(baseDays, num, den, u) ==
  IF IsNaN(baseDays) THEN NaN ELSE RoundDiv(baseDays * num * u, den * 1000000)

\* #generateInitialStatisticsForCell(cell): the statistics, made with the
\* ten draws that follow the state st of the generator.
GenerateInitialStatisticsForCell(cell, st, now) ==
  LET t        == cell.environment.temperature
      baseDays == MathMax(1, RoundDiv(cell.metadata.total_count, 10))
  IN  [ temperature |->
          [ lowest  |-> [ value |-> RoundDiv((t - 50) * 1000000 - 150 * Draw[st, 1, 0],
                                             1000000),
                          timestamp |-> ToISOString(
                            now - 24 * FloorDiv(365 * Draw[st, 3, 0], 1000000)) ],
            highest |-> [ value |-> RoundDiv((t + 100) * 1000000 + 150 * Draw[st, 2, 0],
                                             1000000),
                          timestamp |-> ToISOString(
                            now - 24 * FloorDiv(200 * Draw[st, 4, 0], 1000000)) ] ],
        day_counts |->
          [ rain |-> [ low    |-> RoundShare(baseDays, 6, 10, Draw[st, 5, 0]),
                       medium |-> RoundShare(baseDays, 3, 10, Draw[st, 6, 0]),
                       high   |-> RoundShare(baseDays, 5, 100, Draw[st, 7, 0]) ],
            slippery_road |-> IF Leq(t, 0)
                              THEN RoundShare(baseDays, 4, 10, Draw[st, 8, 0])
                              ELSE RoundShare(baseDays, 5, 100, Draw[st, 8, 0]),
            fog |-> IF cell.environment.conditions.fog
                    THEN RoundShare(baseDays, 6, 10, Draw[st, 9, 0])
                    ELSE RoundShare(baseDays, 5, 100, Draw[st, 9, 0]),
            cross_wind |-> RoundShare(baseDays, 1, 10, Draw[st, 10, 0]) ] ]

\* The draws #generateInitialStatisticsForCell makes.
StatisticsDraws == 10

\* { ...cell, statistics }
WithStatistics(cell, statistics) ==
  [ f \in DOMAIN cell \cup { "statistics" } |->
      IF f = "statistics" THEN statistics ELSE cell[f] ]

\* stats = this.#generateInitialStatisticsForCell(cell);
\* this.#stats.set(h3Index, stats); and the return that follows.
GenerateAndCache(snap, sts, h3Index, st, now) ==
  LET made == GenerateInitialStatisticsForCell(snap[h3Index], st, now)
  IN  [ ret   |-> Returned(WithStatistics(StructuredClone(snap[h3Index]),
                                          StructuredClone(made))),
        stats |-> MapSet(sts, h3Index, made),
        st    |-> RngAfter[st, StatisticsDraws] ]

\* A getCell that generates the statistics at every call.
GetCellRegenerating(snap, sts, h3Index, st, now) ==
  IF h3Index \notin DOMAIN snap
  THEN [ ret |-> Undefined, stats |-> sts, st |-> st ]
  ELSE GenerateAndCache(snap, sts, h3Index, st, now)

\* A getCell that stores a placeholder for an id it does not find.
GetCellCachingAbsent(snap, sts, h3Index, st, now) ==
  IF h3Index \notin DOMAIN snap
  THEN [ ret   |-> Undefined,
         stats |-> MapSet(sts, h3Index, GenerateInitialStatisticsPlaceholder),
         st    |-> st ]
  ELSE IF h3Index \in DOMAIN sts
  THEN [ ret   |-> Returned(WithStatistics(StructuredClone(snap[h3Index]),
                                           StructuredClone(sts[h3Index]))),
         stats |-> sts,
         st    |-> st ]
  ELSE GenerateAndCache(snap, sts, h3Index, st, now)

\* getCell(h3Index, { includeStatistics: true }): what it returns, the
\* cache of statistics and the state of the generator after it.
GetCellWithStatistics(snap, sts, h3Index, st, now) ==
  IF h3Index \notin DOMAIN snap
  THEN [ ret |-> Undefined, stats |-> sts, st |-> st ]
  ELSE IF h3Index \in DOMAIN sts
  THEN [ ret   |-> Returned(WithStatistics(StructuredClone(snap[h3Index]),
                                           StructuredClone(sts[h3Index]))),
         stats |-> sts,
         st    |-> st ]
  ELSE GenerateAndCache(snap, sts, h3Index, st, now)

(***************************************************************************)
(* Inputs of the calls.                                                    *)
(***************************************************************************)
\* The seeds a simulation is constructed with (seed >>> 0).
Seeds == { Word(359) }

\* Events external callers push.
EvMinimal == [ temperature |-> 100 ]

EvStorm ==
  [ temperature |-> 0 - 55, confidence |-> 150, count |-> 0 - 3, fog |-> TRUE,
    cross_wind |-> TRUE, rain_intensity |-> "HIGH",
    road_condition |-> "SLIPPERY_ICE", timestamp |-> CallerTs ]

EvNaN ==
  [ temperature |-> 21, confidence |-> NaN, count |-> NaN,
    rain_intensity |-> "LOW", road_condition |-> "WET" ]

PushEvents == { EvMinimal, EvStorm, EvNaN }

\* Events that name every rain intensity and every road condition, with
\* the storm, which has a timestamp, and the minimal event, which names
\* neither.
ScoredEvents ==
  { [ temperature |-> 0, rain_intensity |-> "NONE", road_condition |-> "SLIPPERY_WET" ],
    [ temperature |-> 0, rain_intensity |-> "LOW", road_condition |-> "WET" ],
    [ temperature |-> 0, rain_intensity |-> "MEDIUM", road_condition |-> "SLIPPERY" ],
    [ temperature |-> 0, rain_intensity |-> "HIGH", road_condition |-> "DRY" ],
    EvStorm, EvMinimal }

\* The cells external callers push to and ask for.
PushCells == { "c1", "cX" }

\* Bounding boxes callers ask for: a box with c1 on its minLat edge, cX on
\* its maxLng edge and c2 outside, and a box of the wrong arity.
Bboxes == { <<1400, 5008, 1506, 5100>>, <<1, 2, 3>> }

\* Boxes read-side callers ask cells for: c1 on the maxLng and maxLat edges;
\* c1 on the minLng and minLat edges; c1 one hundredth west of the box and
\* c2 inside; a box with a NaN; boxes of three and of five values.
CellBboxes ==
  { <<1400, 4900, 1444, 5008>>, <<1444, 5008, 1506, 5077>>,
    <<1445, 4900, 1700, 5100>>, <<NaN, 4900, 1700, 5100>>,
    <<1, 2, 3>>, <<1400, 4900, 1700, 5100, 0>> }

\* Boxes callers ask hotspots for, in millionths of a degree: the first
\* hotspot of seed 359 on the maxLng and maxLat edges; the first on the
\* minimum and the second on the maximum edges; the box of endpoints.md,
\* around Prague; a box with a NaN; a box of three values.
HotspotBboxes ==
  { <<16000000, 49000000, 16606657, 49195167>>,
    <<16606657, 49195167, 17583089, 49517719>>,
    <<14000000, 49900000, 14800000, 50200000>>,
    <<16000000, NaN, 18000000, 50000000>>,
    <<1, 2, 3>> }

\* The bbox parameters of requests: a box around the first hotspot of seed
\* 359, the box of endpoints.md, three numbers, a piece that is no number,
\* four numbers and a blank piece, and no bbox.
BboxParams ==
  { Given(<< Num(16000000), Num(49000000), Num(17000000), Num(50000000) >>),
    Given(<< Num(14000000), Num(49900000), Num(14800000), Num(50200000) >>),
    Given(<< Num(16000000), Num(49000000), Num(17000000) >>),
    Given(<< Num(16000000), Text("north"), Num(17000000), Num(50000000) >>),
    Given(<< Num(16000000), Blank, Num(49000000), Num(17000000), Num(50000000) >>),
    Absent }

\* The min_confidence parameters: none, the confidence of the first
\* hotspot of seed 359, one more, one less, 101, and text.
MinConfidenceParams ==
  { Absent, Given(<< Num(55) >>), Given(<< Num(56) >>), Given(<< Num(54) >>),
    Given(<< Num(101) >>), Given(<< Text("high") >>) }

\* The type parameters: none, the type of that hotspot, another type, both.
TypeParams ==
  { Absent, Given(<< Text("VA") >>), Given(<< Text("EB") >>),
    Given(<< Text("EB"), Text("VA") >>) }

\* What crypto.randomUUID() returns: an identifier no hotspot has yet.
UUIDs == { "uuid-a", "uuid-b" }

FreshUUIDs(hs) == { u \in UUIDs : \A k \in DOMAIN hs : hs[k].metadata.id # u }

\* The statistics external callers hand in, and the cells they name.
StatUpdates == { [ day_counts |-> [ fog |-> 3, rain |-> [ high |-> 1 ] ] ] }

StatCells == { "c1" }

\* Partial statistics with extremes: a lowest extreme with a null highest,
\* a highest extreme with a null lowest, two of the counts with one of them
\* zero, and the empty partial.
CallerStatUpdates ==
  StatUpdates \cup
  { [ temperature |-> [ lowest  |-> [ value |-> 0 - 120, timestamp |-> ToISOString(1) ],
                        highest |-> Null ] ],
    [ temperature |-> [ lowest  |-> Null,
                        highest |-> [ value |-> 310, timestamp |-> ToISOString(2) ] ] ],
    [ day_counts |-> [ slippery_road |-> 2, cross_wind |-> 0 ] ],
    EmptyMap }

CallerStatCells == { "c1", "c2" }

\* The options simulations are constructed with.
Options ==
  { [ targetCellCount |-> c,
      targetHotspotCount |-> IF c < MaxHotspots THEN c ELSE MaxHotspots ] :
    c \in 0..MaxCells }

(***************************************************************************)
(* State.                                                                  *)
(***************************************************************************)
VARIABLES
  targetCellCount,  \* the options the simulation was constructed with
  targetHotspotCount,
  seed,             \* #seed
  rngState,         \* #rngState
  cellLocations,    \* #cellLocations
  rawAgg,           \* #rawAgg
  snapshot,         \* #snapshot
  hotspots,         \* #hotspots
  stats,            \* #stats
  hotspotGen,       \* the for loop of generateInitialHotspots, while it runs
  flushing,         \* #applyRawAggToSnapshotBatch, while it runs
  rawTimerId,       \* #rawTimerId (0: undefined)
  snapshotTimerId,  \* #snapshotTimerId (0: undefined)
  timers,           \* the runtime's live interval timers
  clock,            \* the instant Date.now() returns
  lastCall,         \* the handler that last touched the data, with its arguments
  ret,              \* what it returned
  published,        \* the mapping last built and published as a whole
  ingested,         \* events ingested so far
  flushes,          \* flushes so far
  firstRun          \* what an earlier run of the program with the same options generated

engine == <<targetCellCount, seed, rngState, cellLocations, rawAgg, snapshot>>
registry == <<targetHotspotCount, hotspots, stats, hotspotGen, flushing>>

\* A handler is running: no other handler starts before it returns.
Busy == hotspotGen.active \/ flushing.active
lifecycle == <<rawTimerId, snapshotTimerId, timers>>
observer == <<firstRun>>
vars == <<engine, registry, lifecycle, clock, lastCall, ret, published, ingested, flushes,
         observer>>

\* No earlier run of the program is on record.
NoRun == [ done |-> FALSE ]

\* new Simulation(opts), but for the for loop of generateInitialHotspots.
Constructed ==
  /\ \E opts \in Options :
       /\ targetCellCount = opts.targetCellCount
       /\ targetHotspotCount = opts.targetHotspotCount
  /\ seed \in Seeds
  /\ hotspots = EmptyMap
  /\ stats = EmptyMap
  /\ flushing = NotFlushing
  /\ rngState = seed
  /\ cellLocations = <<>>
  /\ rawAgg = EmptyMap
  /\ snapshot = EmptyMap
  /\ rawTimerId = 0
  /\ snapshotTimerId = 0
  /\ timers = {}
  /\ clock = CHOOSE t \in Instants : \A q \in Instants : t <= q
  /\ lastCall = [ op |-> "constructor" ]
  /\ ret = Undefined
  /\ published = EmptyMap
  /\ ingested = 0
  /\ flushes = 0
  /\ firstRun = NoRun

Init == Constructed /\ hotspotGen = Idle

\* new Simulation({ targetCellCount: 0 }): no cell is generated unless
\* generateInitialCells(forceCount) is called.
InitForced == Init /\ targetCellCount = 0

\* generateInitialData() starts.  The server awaits it right after the
\* construction, before anything else: generateInitialCells() as a whole,
\* then generateInitialHotspots() up to the first call of
\* #generateHotspotStatistics.
GenerateInitialData ==
  /\ ~Busy
  /\ lastCall.op = "constructor"
  /\ \E locs \in { SampleLocations(targetCellCount, seed) } :
       \E b \in { BaselineLoop(0, locs, clock, rngState, snapshot, rawAgg) } :
         /\ cellLocations' = locs
         /\ snapshot' = b.snapshot
         /\ rawAgg' = b.rawAgg
         /\ rngState' = b.st
         /\ published' = b.snapshot
  /\ hotspots' = EmptyMap
  /\ IF targetHotspotCount > 0
     THEN \E uuid \in FreshUUIDs(EmptyMap) : hotspotGen' = GenFrame(0, seed, clock, uuid)
     ELSE hotspotGen' = Idle
  /\ lastCall' = [ op |-> "generateInitialData" ]
  /\ ret' = Undefined
  /\ UNCHANGED <<observer, targetCellCount, targetHotspotCount, seed, stats, flushing,
                 lifecycle, clock, ingested, flushes>>

\* generateInitialCells(forceCount) on a fresh instance.
GenerateInitialCells ==
  /\ ~Busy
  /\ lastCall.op = "constructor"
  /\ \E forceCount \in 0..MaxForceCount :
       \E locs \in { SampleLocations(forceCount, seed) } :
         \E b \in { BaselineLoop(0, locs, clock, rngState, snapshot, rawAgg) } :
           /\ cellLocations' = locs
           /\ snapshot' = b.snapshot
           /\ rawAgg' = b.rawAgg
           /\ rngState' = b.st
           /\ published' = b.snapshot
           /\ lastCall' = [ op |-> "generateInitialCells", forceCount |-> forceCount ]
  /\ ret' = Undefined
  /\ UNCHANGED <<observer, targetCellCount, targetHotspotCount, seed, hotspots, stats,
                 hotspotGen, flushing, lifecycle, clock, ingested, flushes>>

\* One pass of the while loop of #generateHotspotStatistics.
HotspotStatStep ==
  /\ hotspotGen.active
  /\ hotspotGen.remaining > 0
  /\ LET it == StatIteration(hotspotGen.dist, hotspotGen.time_impact,
                             [ k \in 1..MaxStatDraws |-> SeededRandDraw[hotspotGen.sd, k] ])
     IN  hotspotGen' = [ hotspotGen EXCEPT !.dist = it.dist,
                                           !.remaining = @ - 1,
                                           !.sd = SeededRandAfter[@, it.used] ]
  /\ UNCHANGED <<observer, engine, targetHotspotCount, hotspots, stats, flushing,
                 lifecycle, clock, lastCall, ret, published, ingested, flushes>>

\* #generateHotspotStatistics returns; the hotspot is stored and the for
\* loop goes on or ends.
HotspotStore ==
  /\ hotspotGen.active
  /\ hotspotGen.remaining <= 0
  /\ LET hotspot == BuildHotspot(hotspotGen.i, seed, hotspotGen.now, hotspotGen.uuid,
                                 [ distribution |-> hotspotGen.dist ])
     IN  hotspots' = MapSet(hotspots, HotspotKey(hotspot), hotspot)
  /\ IF hotspotGen.i + 1 < targetHotspotCount
     THEN \E uuid \in FreshUUIDs(hotspots') :
            hotspotGen' = GenFrame(hotspotGen.i + 1, seed, clock, uuid)
     ELSE hotspotGen' = Idle
  /\ UNCHANGED <<observer, engine, targetHotspotCount, stats, flushing, lifecycle, clock,
                 lastCall, ret, published, ingested, flushes>>

\* addOrMergeStatistics(h3Index, stats)
AddOrMergeStatistics ==
  /\ ~Busy
  /\ \E h3Index \in StatCells, update \in StatUpdates :
       /\ stats' = AddOrMergeStatisticsOn(stats, h3Index, update)
       /\ lastCall' = [ op |-> "addOrMergeStatistics", h3Index |-> h3Index ]
  /\ ret' = Undefined
  /\ UNCHANGED <<observer, engine, targetHotspotCount, hotspots, hotspotGen, flushing,
                 lifecycle, clock, published, ingested, flushes>>

\* addOrMergeStatistics(h3Index, stats) with the partials of the callers.
AddOrMergeCallerStatistics ==
  /\ ~Busy
  /\ \E h3Index \in CallerStatCells, update \in CallerStatUpdates :
       /\ stats' = AddOrMergeStatisticsOn(stats, h3Index, update)
       /\ lastCall' = [ op |-> "addOrMergeStatistics", h3Index |-> h3Index,
                        update |-> update ]
  /\ ret' = Undefined
  /\ UNCHANGED <<observer, engine, targetHotspotCount, hotspots, hotspotGen, flushing,
                 lifecycle, clock, published, ingested, flushes>>

\* The id setInterval returns: a positive number no live timer has.
FreshTimerId(ts) == CHOOSE id \in 1..(Cardinality(ts) + 1) :
                      \A t \in ts : t.id # id

\* setInterval(callback of the given kind)
SetInterval(ts, kind) == ts \cup { [ id |-> FreshTimerId(ts), kind |-> kind ] }

\* start()
Start ==
  /\ ~Busy
  /\ IF rawTimerId # 0
     THEN UNCHANGED <<rawTimerId, snapshotTimerId, timers>>
     ELSE LET withRaw == SetInterval(timers, "raw")
          IN  /\ rawTimerId' = FreshTimerId(timers)
              /\ snapshotTimerId' = FreshTimerId(withRaw)
              /\ timers' = SetInterval(withRaw, "snapshot")
  /\ UNCHANGED <<observer, registry, engine, clock, lastCall, ret, published, ingested, flushes>>

\* A clearInterval that cancels nothing.
KeepInterval(ts, id) == ts

\* clearInterval(id)
ClearInterval(ts, id) == { t \in ts : t.id # id }

\* stop()
Stop ==
  /\ ~Busy
  /\ timers' = ClearInterval(ClearInterval(timers, rawTimerId), snapshotTimerId)
  /\ rawTimerId' = 0
  /\ snapshotTimerId' = 0
  /\ UNCHANGED <<observer, registry, engine, clock, lastCall, ret, published, ingested, flushes>>

\* The production timer fires.
RawTick ==
  /\ ~Busy
  /\ \E t \in timers : t.kind = "raw"
  /\ ingested + BatchSize(targetCellCount) <= MaxIngest
  /\ \E p \in { ProduceBatch(BatchSize(targetCellCount), rawAgg, snapshot,
                              cellLocations, rngState, clock) } :
       /\ rawAgg' = p.rawAgg
       /\ rngState' = p.st
  /\ ingested' = ingested + BatchSize(targetCellCount)
  /\ lastCall' = [ op |-> "rawTick" ]
  /\ ret' = Undefined
  /\ UNCHANGED <<observer, registry, targetCellCount, seed, cellLocations, snapshot, lifecycle,
                 clock, published, flushes>>

\* The state a statement of the flush leaves, the statements before it
\* having left the record m.
AfterStatement(pc, m, before, prev) ==
  LET stmt == FlushStatements[pc]
      m2   == FlushStatement(stmt, m)
      last == pc = Len(FlushStatements)
  IN  /\ rawAgg' = m2.rawAgg
      /\ snapshot' = m2.snapshot
      /\ published' = IF stmt = "publish" THEN m.newSnapshot ELSE published
      /\ flushing' = IF last THEN NotFlushing ELSE FlushFrame(pc, m2, before, prev)
      /\ IF last
         THEN /\ lastCall' = [ op |-> "flush", cells |-> DOMAIN before ]
              /\ ret' = Undefined
         ELSE UNCHANGED <<lastCall, ret>>

\* The snapshot timer fires: #applyRawAggToSnapshotBatch() is called and
\* runs its first statement.
SnapshotTick ==
  /\ ~Busy
  /\ \E t \in timers : t.kind = "snapshot"
  /\ flushes < MaxFlushes
  /\ AfterStatement(1, [ rawAgg |-> rawAgg, snapshot |-> snapshot,
                         newSnapshot |-> EmptyMap, now |-> clock ],
                    rawAgg, snapshot)
  /\ flushes' = flushes + 1
  /\ UNCHANGED <<observer, targetCellCount, seed, rngState, cellLocations,
                 targetHotspotCount, hotspots, stats, hotspotGen, lifecycle,
                 clock, ingested>>

\* The running flush executes its next statement.
FlushStep ==
  /\ flushing.active
  /\ AfterStatement(flushing.pc + 1,
                    [ rawAgg |-> rawAgg, snapshot |-> snapshot,
                      newSnapshot |-> flushing.newSnapshot, now |-> flushing.now ],
                    flushing.before, flushing.prev)
  /\ UNCHANGED <<observer, targetCellCount, seed, rngState, cellLocations,
                 targetHotspotCount, hotspots, stats, hotspotGen, lifecycle,
                 clock, ingested, flushes>>

\* pushRawEvent(h3Index, event) by an external caller.
PushRawEventCall ==
  /\ ~Busy
  /\ ingested < MaxIngest
  /\ \E h3Index \in PushCells, event \in PushEvents :
       LET after == PushRawEventOnStores(
                      [ rawAgg |-> rawAgg, snapshot |-> snapshot,
                        hotspots |-> hotspots, stats |-> stats ],
                      h3Index, event, clock)
       IN  /\ rawAgg' = after.rawAgg
           /\ snapshot' = after.snapshot
           /\ hotspots' = after.hotspots
           /\ stats' = after.stats
           /\ lastCall' = [ op |-> "pushRawEvent", h3Index |-> h3Index,
                            event |-> event,
                            fresh |-> h3Index \notin DOMAIN rawAgg ]
  /\ ingested' = ingested + 1
  /\ ret' = Undefined
  /\ UNCHANGED <<observer, targetCellCount, seed, rngState, cellLocations,
                 targetHotspotCount, hotspotGen, flushing, lifecycle, clock,
                 published, flushes>>

\* pushRawEvent(h3Index, event) with an event of the scored ones.
PushScoredEvent ==
  /\ ~Busy
  /\ ingested < MaxPushes
  /\ \E h3Index \in PushCells, event \in ScoredEvents :
       /\ rawAgg' = PushRawEvent(rawAgg, h3Index, event, clock)
       /\ lastCall' = [ op |-> "pushRawEvent", h3Index |-> h3Index,
                        event |-> event,
                        fresh |-> h3Index \notin DOMAIN rawAgg ]
  /\ ingested' = ingested + 1
  /\ ret' = Undefined
  /\ UNCHANGED <<observer, registry, targetCellCount, seed, rngState, cellLocations,
                 snapshot, lifecycle, clock, published, flushes>>

\* getSnapshot()
GetSnapshot ==
  /\ ~Busy
  /\ ret' = GetSnapshotResult(snapshot)
  /\ lastCall' = [ op |-> "getSnapshot" ]
  /\ UNCHANGED <<observer, registry, engine, lifecycle, clock, published, ingested, flushes>>

\* getSnapshotInBbox(bbox)
GetSnapshotInBbox ==
  /\ ~Busy
  /\ \E bbox \in Bboxes :
       /\ ret' = GetSnapshotInBboxResult(snapshot, bbox)
       /\ lastCall' = [ op |-> "getSnapshotInBbox", bbox |-> bbox ]
  /\ UNCHANGED <<observer, registry, engine, lifecycle, clock, published, ingested, flushes>>

\* getCell(h3Index)
GetCell ==
  /\ ~Busy
  /\ \E h3Index \in PushCells :
       /\ ret' = GetCellResult(snapshot, h3Index)
       /\ lastCall' = [ op |-> "getCell", h3Index |-> h3Index ]
  /\ UNCHANGED <<observer, registry, engine, lifecycle, clock, published, ingested, flushes>>

\* getSnapshotInBbox(bbox), by a caller of the class
GetSnapshotInCallerBbox ==
  /\ ~Busy
  /\ \E bbox \in CellBboxes :
       /\ ret' = GetSnapshotInBboxResult(snapshot, bbox)
       /\ lastCall' = [ op |-> "getSnapshotInBbox", bbox |-> bbox ]
  /\ UNCHANGED <<observer, registry, engine, lifecycle, clock, published, ingested, flushes>>

\* getHotspots()
GetHotspots ==
  /\ ~Busy
  /\ ret' = GetHotspotsResult(hotspots)
  /\ lastCall' = [ op |-> "getHotspots" ]
  /\ UNCHANGED <<observer, registry, engine, lifecycle, clock, published, ingested, flushes>>

\* getHotspotsInBbox(bbox)
GetHotspotsInBbox ==
  /\ ~Busy
  /\ \E bbox \in HotspotBboxes :
       /\ ret' = GetHotspotsInBboxResult(hotspots, bbox)
       /\ lastCall' = [ op |-> "getHotspotsInBbox", bbox |-> bbox ]
  /\ UNCHANGED <<observer, registry, engine, lifecycle, clock, published, ingested, flushes>>

\* getCell(h3Index, { includeStatistics: true })
GetCellStatistics ==
  /\ ~Busy
  /\ \E h3Index \in PushCells :
       \E g \in { GetCellWithStatistics(snapshot, stats, h3Index, rngState, clock) } :
         /\ ret' = g.ret
         /\ stats' = g.stats
         /\ rngState' = g.st
         /\ lastCall' = [ op |-> "getCellWithStatistics", h3Index |-> h3Index,
                          cached |-> h3Index \in DOMAIN stats ]
  /\ UNCHANGED <<observer, targetCellCount, seed, cellLocations, rawAgg, snapshot,
                 targetHotspotCount, hotspots, hotspotGen, flushing, lifecycle,
                 clock, published, ingested, flushes>>

\* GET /mock/v1/road-safety/hotspots
GetHotspotsRoute ==
  /\ ~Busy
  /\ lastCall.op # "constructor"
  /\ \E bbox \in BboxParams, min_confidence \in MinConfidenceParams,
        type \in TypeParams :
       /\ ret' = HotspotsRoute(hotspots, bbox, min_confidence, type)
       /\ lastCall' = [ op |-> "GET hotspots", bbox |-> bbox,
                        min_confidence |-> min_confidence, type |-> type ]
  /\ UNCHANGED <<observer, registry, engine, lifecycle, clock, published, ingested, flushes>>

\* The caller of a getter writes to the fields of everything it was handed:
\* the cells, the hotspots, the statistics.
CallerMutates ==
  /\ ~Busy
  /\ ret.kind = "value"
  /\ snapshot' =
       CASE lastCall.op \in {"getSnapshot", "getSnapshotInBbox"} ->
              ScribbleThrough(snapshot, ret.value)
         [] lastCall.op \in {"getCell", "getCellWithStatistics"} ->
              ScribbleOne(snapshot, lastCall.h3Index, ret.value)
         [] OTHER -> snapshot
  /\ hotspots' =
       CASE lastCall.op \in {"getHotspots", "getHotspotsInBbox"} ->
              ScribbleThrough(hotspots, ret.value)
         [] OTHER -> hotspots
  /\ stats' =
       CASE lastCall.op = "getCellWithStatistics" ->
              ScribbleOne(stats, lastCall.h3Index, ret.value.statistics)
         [] OTHER -> stats
  /\ lastCall' = [ op |-> "mutateReturned", after |-> lastCall.op ]
  /\ ret' = Undefined
  /\ UNCHANGED <<observer, targetCellCount, seed, rngState, cellLocations, rawAgg,
                 targetHotspotCount, hotspotGen, flushing, lifecycle, clock,
                 published, ingested, flushes>>

\* Time passes.
TimePasses ==
  /\ \E t \in Instants : t > clock /\ clock' = t
  /\ UNCHANGED <<observer, registry, engine, lifecycle, lastCall, ret, published, ingested, flushes>>

Next ==
  \/ TimePasses
  \/ GenerateInitialData
  \/ HotspotStatStep
  \/ HotspotStore
  \/ AddOrMergeStatistics
  \/ Start
  \/ Stop
  \/ RawTick
  \/ SnapshotTick
  \/ FlushStep
  \/ PushRawEventCall
  \/ GetSnapshot
  \/ GetSnapshotInBbox
  \/ GetCell

Spec == Init /\ [][Next]_vars

(***************************************************************************)
(* #generateHotspotStatistics under an arbitrary random stream: the call   *)
(* is entered with any total_count and time_impact, and every draw of a    *)
(* pass is any of the sample draws.                                        *)
(***************************************************************************)
\* The least and the greatest draw, and a draw between 0.6 and 0.8.
LeastDraw == <<0, 0>>
GreatestDraw == <<65535, 65535>>
MiddleDraw == <<45875, 0>>

Ends == { LeastDraw, GreatestDraw }

StatStreams ==
  { <<week, dayRoll, day, timeRoll, d5, d6, d7>> :
      week \in Ends, dayRoll \in Ends, day \in Ends,
      timeRoll \in Ends \cup { MiddleDraw },
      d5 \in Ends, d6 \in Ends, d7 \in Ends }

InitStats ==
  /\ Constructed
  /\ targetCellCount = 0
  /\ \E n \in 0..MaxOccurrences, ti \in 1..5 :
       hotspotGen = [ active |-> TRUE, i |-> 0, now |-> clock, uuid |-> "uuid-a",
                      total_count |-> n, time_impact |-> ti, remaining |-> n,
                      dist |-> EmptyDistribution, sd |-> LeastDraw ]

\* One pass of the while loop, its draws being any of the sample draws.
StatStepAnyStream ==
  /\ hotspotGen.active
  /\ hotspotGen.remaining > 0
  /\ \E d \in StatStreams :
       hotspotGen' = [ hotspotGen EXCEPT
                         !.dist = StatIteration(@, hotspotGen.time_impact, d).dist,
                         !.remaining = @ - 1 ]
  /\ UNCHANGED <<observer, engine, targetHotspotCount, hotspots, stats, flushing,
                 lifecycle, clock, lastCall, ret, published, ingested, flushes>>

SpecStats == InitStats /\ [][StatStepAnyStream]_vars

(***************************************************************************)
(* The body of the for loop of generateInitialHotspots under any stream:   *)
(* the draws the counts, instants and impacts are made of are each the     *)
(* least, the greatest or a middle value r() returns, the others the       *)
(* least.                                                                  *)
(***************************************************************************)
SampleDraws == { LeastDraw, MiddleDraw, GreatestDraw }

BodyStreams ==
  { [ k \in 1..HotspotDraws |->
        CASE k = 5  -> total
          [] k = 6  -> last
          [] k = 7  -> first
          [] k = 8  -> weather
          [] k = 9  -> time
          [] k = 18 -> importance
          [] OTHER  -> LeastDraw ] :
      total \in SampleDraws, last \in SampleDraws, first \in SampleDraws,
      weather \in SampleDraws, time \in SampleDraws, importance \in SampleDraws }

\* One pass of the for loop up to the hotspot it builds, on a fresh
\* instance.
HotspotBodyAnyStream ==
  /\ lastCall.op = "constructor"
  /\ \E r \in BodyStreams :
       ret' = BuildHotspotOf(r, clock, "uuid-a", GenerateInitialStatisticsPlaceholder)
  /\ lastCall' = [ op |-> "generateInitialHotspots", now |-> clock ]
  /\ UNCHANGED <<observer, registry, engine, lifecycle, clock, published, ingested,
                 flushes>>

NextBody == TimePasses \/ HotspotBodyAnyStream

SpecBody == InitForced /\ [][NextBody]_vars

(***************************************************************************)
(* #generateEnvironmentForLocation under any draws: the draw of the noise  *)
(* and the rain roll each range over values on and between the thresholds, *)
(* the later draws are all the least or all the greatest.                  *)
(***************************************************************************)
NoiseDraws == { 0, 500000, 750000, 999999 }

RainRolls == { 0, 110000, 140000, 999999 }

EnvLats == { MinLat, 5008, MaxLat }

\* One call of #generateEnvironmentForLocation at the reading of the clock.
EnvironmentAnyDraws ==
  /\ \E lat \in EnvLats, noise \in NoiseDraws, rainRoll \in RainRolls,
        later \in { 0, 999999 } :
       LET draw == [ k \in 1..5, offset \in Nat |->
                       CASE k = 1 -> noise [] k = 2 -> rainRoll [] OTHER -> later ]
       IN  /\ ret' = EnvironmentOf(draw, lat, 1444, clock, 0).env
           /\ lastCall' = [ op |-> "#generateEnvironmentForLocation", lat |-> lat,
                            timestampMs |-> clock ]
  /\ UNCHANGED <<observer, registry, engine, lifecycle, clock, published, ingested,
                 flushes>>

NextEnv == TimePasses \/ EnvironmentAnyDraws

SpecEnv == InitForced /\ [][NextEnv]_vars

(***************************************************************************)
(* generateInitialCells called a second time on the same instance: the     *)
(* locations are sampled from the seed again, the baseline is drawn from   *)
(* the generator in the state the first call left it in.                   *)
(***************************************************************************)
GenerateInitialCellsAgain ==
  /\ ~Busy
  /\ lastCall.op = "generateInitialCells"
  /\ "again" \notin DOMAIN lastCall
  /\ \E forceCount \in 0..MaxForceCount :
       \E locs \in { SampleLocations(forceCount, seed) } :
         \E b \in { BaselineLoop(0, locs, clock, rngState, snapshot, rawAgg) } :
           /\ cellLocations' = locs
           /\ snapshot' = b.snapshot
           /\ rawAgg' = b.rawAgg
           /\ rngState' = b.st
           /\ published' = b.snapshot
           /\ lastCall' = [ op |-> "generateInitialCells", forceCount |-> forceCount,
                            again |-> TRUE ]
  /\ ret' = Undefined
  /\ UNCHANGED <<observer, targetCellCount, targetHotspotCount, seed, hotspots, stats,
                 hotspotGen, flushing, lifecycle, clock, ingested, flushes>>

NextAgain ==
  TimePasses \/ GenerateInitialCells \/ GenerateInitialCellsAgain \/ GetSnapshot \/ GetCell

SpecAgain == InitForced /\ [][NextAgain]_vars

(***************************************************************************)
(* Windows of pushed events: events of one and of two observations are     *)
(* pushed between the flushes of a started engine with no baseline.        *)
(***************************************************************************)
WindowEvents == { EvMinimal, [ temperature |-> 100, count |-> 2 ] }

PushInWindow ==
  /\ ~Busy
  /\ ingested < MaxWindowPushes
  /\ \E h3Index \in PushCells, event \in WindowEvents :
       /\ rawAgg' = PushRawEvent(rawAgg, h3Index, event, clock)
       /\ lastCall' = [ op |-> "pushRawEvent", h3Index |-> h3Index,
                        event |-> event,
                        fresh |-> h3Index \notin DOMAIN rawAgg ]
  /\ ingested' = ingested + 1
  /\ ret' = Undefined
  /\ UNCHANGED <<observer, registry, targetCellCount, seed, rngState, cellLocations,
                 snapshot, lifecycle, clock, published, flushes>>

NextWindows == Start \/ PushInWindow \/ SnapshotTick \/ FlushStep

SpecWindows == InitForced /\ [][NextWindows]_vars

(***************************************************************************)
(* IEEE 754 doubles, for the sums the code keeps in Number: a finite       *)
(* double is (-1)^neg * m * 2^e, its mantissa m a natural number of        *)
(* exactly 53 bits (or zero), kept as sixteen bytes, the least first.      *)
(* Exponents stay far from the ends of the range of a double.              *)
(***************************************************************************)
ByteIndex == 1..16

BitIndex == 0..127

WideZero == [ i \in ByteIndex |-> 0 ]

\* The wide natural of the bytes given, the least first.
Wide(bytes) == [ i \in ByteIndex |-> IF i <= Len(bytes) THEN bytes[i] ELSE 0 ]

WideBit(a, i) == (a[(i \div 8) + 1] \div Pow2(i % 8)) % 2

\* The number of bits of a: 0 for zero.
WideBitLen(a) ==
  IF a = WideZero THEN 0
  ELSE 1 + CHOOSE i \in BitIndex :
             WideBit(a, i) = 1 /\ \A j \in BitIndex : j > i => WideBit(a, j) = 0

\* a * 2^k and the whole part of a / 2^k.
WideShl(a, k) ==
  [ i \in ByteIndex |->
      LET j == i - (k \div 8)
      IN  ((IF j >= 1 THEN (a[j] * Pow2(k % 8)) % 256 ELSE 0)
           + (IF j >= 2 THEN a[j - 1] \div Pow2(8 - (k % 8)) ELSE 0)) ]

WideShr(a, k) ==
  [ i \in ByteIndex |->
      LET j == i + (k \div 8)
      IN  ((IF j <= 16 THEN a[j] \div Pow2(k % 8) ELSE 0)
           + (IF j + 1 <= 16 THEN (a[j + 1] % Pow2(k % 8)) * Pow2(8 - (k % 8)) ELSE 0)) ]

\* a + b and, for a >= b, a - b.
WideAdd(a, b) ==
  LET carry[i \in 0..16] ==
        IF i = 0 THEN 0 ELSE (a[i] + b[i] + carry[i - 1]) \div 256
  IN  [ i \in ByteIndex |-> (a[i] + b[i] + carry[i - 1]) % 256 ]

WideSub(a, b) ==
  LET borrow[i \in 0..16] ==
        IF i = 0 THEN 0 ELSE IF a[i] - b[i] - borrow[i - 1] < 0 THEN 1 ELSE 0
  IN  [ i \in ByteIndex |-> (a[i] - b[i] - borrow[i - 1] + 256) % 256 ]

WideLess(a, b) ==
  \E i \in ByteIndex : a[i] < b[i] /\ \A j \in ByteIndex : j > i => a[j] = b[j]

\* The whole part of a / n and whether a rest is left, for a small n.
WideDivSmall(a, n) ==
  LET rest[i \in 1..17] ==
        IF i = 17 THEN 0 ELSE (rest[i + 1] * 256 + a[i]) % n
  IN  [ quotient |-> [ i \in ByteIndex |-> (rest[i + 1] * 256 + a[i]) \div n ],
        rest     |-> rest[1] # 0 ]

WideOne == Wide(<<1>>)

DoubleZero == [ neg |-> FALSE, m |-> WideZero, e |-> 0 ]

\* The double nearest to (-1)^neg * s * 2^e, ties to the even mantissa;
\* sticky tells that the exact value is a little above s * 2^e.
RoundToDouble(neg, s, e, sticky) ==
  IF s = WideZero THEN DoubleZero
  ELSE
    CHOOSE d \in
      { IF n <= 53
        THEN [ neg |-> neg, m |-> WideShl(s, 53 - n), e |-> e - (53 - n) ]
        ELSE CHOOSE r \in
               { IF WideBitLen(q) = 54
                 THEN [ neg |-> neg, m |-> WideShr(q, 1), e |-> e + (n - 53) + 1 ]
                 ELSE [ neg |-> neg, m |-> q, e |-> e + (n - 53) ] :
                 q \in { IF /\ WideBit(s, n - 54) = 1
                            /\ \/ sticky
                               \/ \E j \in 0..(n - 55) : WideBit(s, j) = 1
                               \/ WideBit(s, n - 53) = 1
                         THEN WideAdd(WideShr(s, n - 53), WideOne)
                         ELSE WideShr(s, n - 53) } } : TRUE :
        n \in { WideBitLen(s) } } : TRUE

\* x + y in round-to-nearest, as Number adds.
DoubleAdd(x, y) ==
  IF x.m = WideZero THEN y
  ELSE IF y.m = WideZero THEN x
  ELSE IF x.e - y.e > 64 THEN x
  ELSE IF y.e - x.e > 64 THEN y
  ELSE
    CHOOSE d \in
      { IF x.neg = y.neg THEN RoundToDouble(x.neg, WideAdd(p[1], p[2]), p[3], FALSE)
        ELSE IF WideLess(p[1], p[2])
             THEN RoundToDouble(y.neg, WideSub(p[2], p[1]), p[3], FALSE)
             ELSE RoundToDouble(x.neg, WideSub(p[1], p[2]), p[3], FALSE) :
        p \in { IF x.e >= y.e THEN <<WideShl(x.m, x.e - y.e), y.m, y.e>>
                ELSE <<x.m, WideShl(y.m, y.e - x.e), x.e>> } } : TRUE

\* x / n and x * n for a small whole n > 0.
DoubleDivSmall(x, n) ==
  CHOOSE d \in
    { RoundToDouble(x.neg, q.quotient, x.e - 64, q.rest) :
      q \in { WideDivSmall(WideShl(x.m, 64), n) } } : TRUE

DoubleTimesTen(x) ==
  RoundToDouble(x.neg, WideAdd(WideShl(x.m, 3), WideShl(x.m, 1)), x.e, FALSE)

\* The whole number of at most three bytes a wide natural is.
WideToInt(a) == a[1] + 256 * a[2] + 65536 * a[3]

\* Math.round(x) for a double below 2^23 in size: the nearest whole number,
\* a tie going up.
MathRound(x) ==
  IF x.m = WideZero THEN 0
  ELSE IF x.e >= 0 THEN (IF x.neg THEN 0 - 1 ELSE 1) * WideToInt(WideShl(x.m, x.e))
  ELSE IF 0 - x.e > 54 THEN 0
  ELSE
    LET k     == 0 - x.e
        whole == WideToInt(WideShr(x.m, k))
        half  == WideBit(x.m, k - 1) = 1
        below == \E j \in 0..(k - 2) : WideBit(x.m, j) = 1
    IN  IF x.neg THEN 0 - (whole + (IF half /\ below THEN 1 ELSE 0))
        ELSE whole + (IF half THEN 1 ELSE 0)

(***************************************************************************)
(* pushRawEvent and the flush with the sum of the temperatures kept in the *)
(* doubles of the code; the temperature of a published cell is still       *)
(* counted in tenths, Math.round(avgTemp * 10) / 10 being the double       *)
(* nearest to so many tenths.                                              *)
(***************************************************************************)
\* The doubles the literals -6.3, 17.1, 8.1 and 2.9 denote.
DoubleTemps ==
  { [ neg |-> TRUE,  m |-> Wide(<<51, 51, 51, 51, 51, 51, 25>>), e |-> 0 - 50 ],
    [ neg |-> FALSE, m |-> Wide(<<154, 153, 153, 153, 153, 25, 17>>), e |-> 0 - 48 ],
    [ neg |-> FALSE, m |-> Wide(<<51, 51, 51, 51, 51, 51, 16>>), e |-> 0 - 49 ],
    [ neg |-> FALSE, m |-> Wide(<<51, 51, 51, 51, 51, 51, 23>>), e |-> 0 - 51 ] }

\* Events with explicit timestamps.
DoubleEvents == { [ temperature |-> t, timestamp |-> CallerTs ] : t \in DoubleTemps }

NewBucketOfDoubles == [ NewBucket EXCEPT !.sumTemp = DoubleZero ]

\* bucket.sumTemp += event.temperature in doubles, the other sums as in
\* MergeEvent.
MergeEventOfDoubles(bucket, event, now) ==
  [ MergeEvent([ bucket EXCEPT !.sumTemp = 0 ], [ event EXCEPT !.temperature = 0 ], now)
      EXCEPT !.sumTemp = DoubleAdd(bucket.sumTemp, event.temperature) ]

PushRawEventOfDoubles(agg, h3Index, event, now) ==
  LET bucket == IF h3Index \in DOMAIN agg THEN agg[h3Index] ELSE NewBucketOfDoubles
  IN  MapSet(agg, h3Index, MergeEventOfDoubles(bucket, event, now))

\* Math.round((agg.sumTemp / Math.max(1, agg.count)) * 10), the tenths of
\* the temperature published.
FlushTemperatureOfDoubles(agg) ==
  MathRound(DoubleTimesTen(DoubleDivSmall(agg.sumTemp, AtLeastOne(agg.count))))

SummariseBucketOfDoubles(h3index, agg, snap, now) ==
  [ SummariseBucket(h3index, [ agg EXCEPT !.sumTemp = 0 ], snap, now)
      EXCEPT !.environment.temperature = FlushTemperatureOfDoubles(agg) ]

BuildNewSnapshotOfDoubles(agg, snap, now) ==
  [ h3index \in DOMAIN agg |-> SummariseBucketOfDoubles(h3index, agg[h3index], snap, now) ]

PushDoubles ==
  /\ ~Busy
  /\ ingested < MaxWindowPushes
  /\ \E h3Index \in PushCells, event \in DoubleEvents :
       /\ rawAgg' = PushRawEventOfDoubles(rawAgg, h3Index, event, clock)
       /\ lastCall' = [ op |-> "pushRawEvent", h3Index |-> h3Index,
                        event |-> event,
                        fresh |-> h3Index \notin DOMAIN rawAgg ]
  /\ ingested' = ingested + 1
  /\ ret' = Undefined
  /\ UNCHANGED <<observer, registry, targetCellCount, seed, rngState, cellLocations,
                 snapshot, lifecycle, clock, published, flushes>>

\* A tick of the snapshot timer, the whole of #applyRawAggToSnapshotBatch.
FlushDoubles ==
  /\ ~Busy
  /\ \E t \in timers : t.kind = "snapshot"
  /\ flushes < MaxFlushes
  /\ \E newSnapshot \in { BuildNewSnapshotOfDoubles(rawAgg, snapshot, clock) } :
       /\ snapshot' = ReplaceSnapshot(snapshot, newSnapshot)
       /\ published' = newSnapshot
  /\ rawAgg' = ClearRawAgg(rawAgg)
  /\ flushes' = flushes + 1
  /\ lastCall' = [ op |-> "flush", cells |-> DOMAIN rawAgg ]
  /\ ret' = Undefined
  /\ UNCHANGED <<observer, registry, targetCellCount, seed, rngState, cellLocations,
                 lifecycle, clock, ingested>>

NextDoubles == Start \/ PushDoubles \/ FlushDoubles

SpecDoubles == InitForced /\ [][NextDoubles]_vars

(***************************************************************************)
(* Classification runs: one bucket is filled with up to MaxVotes events of *)
(* any rain intensity and road condition, then flushed.                    *)
(***************************************************************************)
ClassEvent(rain, road) ==
  [ temperature |-> 0, rain_intensity |-> rain, road_condition |-> road ]

\* pushRawEvent("cX", event) before the first flush.
PushClassified ==
  /\ ~Busy
  /\ flushes = 0
  /\ (IF "cX" \in DOMAIN rawAgg THEN rawAgg["cX"].count ELSE 0) < MaxVotes
  /\ \E rain \in RainIntensities, road \in RoadConditions :
       rawAgg' = PushRawEvent(rawAgg, "cX", ClassEvent(rain, road), clock)
  /\ lastCall' = [ op |-> "pushRawEvent", h3Index |-> "cX" ]
  /\ ret' = Undefined
  /\ UNCHANGED <<observer, registry, targetCellCount, seed, rngState, cellLocations,
                 snapshot, lifecycle, clock, published, ingested, flushes>>

\* The first flush.
FirstSnapshotTick == flushes = 0 /\ SnapshotTick

\* pushRawEvent("cX", event) with an event that votes, or does not, for
\* fog and for cross wind, before the first flush.
PushVoting ==
  /\ ~Busy
  /\ flushes = 0
  /\ (IF "cX" \in DOMAIN rawAgg THEN rawAgg["cX"].count ELSE 0) < MaxVotes
  /\ \E fog \in BOOLEAN, cross_wind \in BOOLEAN :
       rawAgg' = PushRawEvent(rawAgg, "cX",
                              [ temperature |-> 0, fog |-> fog,
                                cross_wind |-> cross_wind ], clock)
  /\ lastCall' = [ op |-> "pushRawEvent", h3Index |-> "cX" ]
  /\ ret' = Undefined
  /\ UNCHANGED <<observer, registry, targetCellCount, seed, rngState, cellLocations,
                 snapshot, lifecycle, clock, published, ingested, flushes>>

InitClassify == Init /\ targetCellCount = 0

NextClassify ==
  \/ Start
  \/ PushClassified
  \/ FirstSnapshotTick
  \/ FlushStep

SpecClassify == InitClassify /\ [][NextClassify]_vars

NextVotes ==
  \/ Start
  \/ PushVoting
  \/ FirstSnapshotTick
  \/ FlushStep

SpecVotes == InitClassify /\ [][NextVotes]_vars

(***************************************************************************)
(* Two runs of the program with the same options: the baseline is          *)
(* generated, the process ends, and the program is run again.              *)
(***************************************************************************)
\* The process ends after generateInitialData() and the program is run
\* again: new Simulation(opts) with the options of the first run.  What the
\* first run generated stays on record.
Restart ==
  /\ ~Busy
  /\ lastCall.op = "generateInitialData"
  /\ ~firstRun.done
  /\ firstRun' = [ done |-> TRUE, cellLocations |-> cellLocations,
                   hotspots |-> hotspots ]
  /\ hotspots' = EmptyMap
  /\ stats' = EmptyMap
  /\ rngState' = seed
  /\ cellLocations' = <<>>
  /\ rawAgg' = EmptyMap
  /\ snapshot' = EmptyMap
  /\ rawTimerId' = 0
  /\ snapshotTimerId' = 0
  /\ timers' = {}
  /\ lastCall' = [ op |-> "constructor" ]
  /\ ret' = Undefined
  /\ published' = EmptyMap
  /\ ingested' = 0
  /\ flushes' = 0
  /\ UNCHANGED <<targetCellCount, targetHotspotCount, seed, hotspotGen, flushing, clock>>

NextRuns ==
  \/ TimePasses
  \/ GenerateInitialData
  \/ HotspotStatStep
  \/ HotspotStore
  \/ Restart

SpecRuns == Init /\ [][NextRuns]_vars

(***************************************************************************)
(* The cache of statistics under ingestion and flushes.                    *)
(***************************************************************************)
NextCache ==
  \/ TimePasses
  \/ GenerateInitialCells
  \/ GetCellStatistics
  \/ AddOrMergeStatistics
  \/ PushRawEventCall
  \/ Start
  \/ SnapshotTick
  \/ FlushStep

SpecCache == InitForced /\ [][NextCache]_vars

(***************************************************************************)
(* The read side: the generation of the initial data and the getters.      *)
(***************************************************************************)
NextQueries ==
  \/ TimePasses
  \/ GenerateInitialCells
  \/ GenerateInitialData
  \/ HotspotStatStep
  \/ HotspotStore
  \/ GetSnapshot
  \/ GetCell
  \/ GetCellStatistics
  \/ GetSnapshotInCallerBbox
  \/ GetHotspots
  \/ GetHotspotsInBbox
  \/ GetHotspotsRoute
  \/ CallerMutates

SpecQueries == Init /\ [][NextQueries]_vars

(***************************************************************************)
(* Merges of statistics into generated and into absent records.            *)
(***************************************************************************)
NextMerge ==
  \/ GenerateInitialCells
  \/ GetCellStatistics
  \/ AddOrMergeCallerStatistics

SpecMerge == Init /\ [][NextMerge]_vars

(***************************************************************************)
(* getCell, with and without statistics, for ids that have left the        *)
(* snapshot: the cells are generated, their statistics cached or merged,   *)
(* and the flushes replace the snapshot.                                   *)
(***************************************************************************)
NextAbsent ==
  \/ TimePasses
  \/ GenerateInitialCells
  \/ GetCell
  \/ GetCellStatistics
  \/ AddOrMergeStatistics
  \/ Start
  \/ SnapshotTick
  \/ FlushStep

SpecAbsent == InitForced /\ [][NextAbsent]_vars

(***************************************************************************)
(* Sequences of start() and stop(), each call noted with the state it      *)
(* found, between ticks of the two timers.                                 *)
(***************************************************************************)
\* A start() that sets its intervals whether or not it is started.
StartTimersUnguarded(ts, rawId, snapshotId) ==
  LET withRaw == SetInterval(ts, "raw")
  IN  [ rawTimerId      |-> FreshTimerId(ts),
        snapshotTimerId |-> FreshTimerId(withRaw),
        timers          |-> SetInterval(withRaw, "snapshot") ]

\* start(): the two timer fields and the live timers after it.
StartTimers(ts, rawId, snapshotId) ==
  IF rawId # 0
  THEN [ rawTimerId |-> rawId, snapshotTimerId |-> snapshotId, timers |-> ts ]
  ELSE LET withRaw == SetInterval(ts, "raw")
       IN  [ rawTimerId      |-> FreshTimerId(ts),
             snapshotTimerId |-> FreshTimerId(withRaw),
             timers          |-> SetInterval(withRaw, "snapshot") ]

\* stop(): the two timer fields and the live timers after it.
StopTimers(ts, rawId, snapshotId) ==
  LET afterRaw == IF rawId # 0 THEN ClearInterval(ts, rawId) ELSE ts
  IN  [ rawTimerId      |-> 0,
        snapshotTimerId |-> 0,
        timers          |-> IF snapshotId # 0
                            THEN ClearInterval(afterRaw, snapshotId)
                            ELSE afterRaw ]

\* start(), noted as the last call
StartCalled ==
  /\ ~Busy
  /\ \E after \in { StartTimers(timers, rawTimerId, snapshotTimerId) } :
       /\ rawTimerId' = after.rawTimerId
       /\ snapshotTimerId' = after.snapshotTimerId
       /\ timers' = after.timers
  /\ lastCall' = [ op |-> "start", started |-> rawTimerId # 0 ]
  /\ ret' = Undefined
  /\ UNCHANGED <<observer, registry, engine, clock, published, ingested, flushes>>

\* stop(), noted as the last call
StopCalled ==
  /\ ~Busy
  /\ \E after \in { StopTimers(timers, rawTimerId, snapshotTimerId) } :
       /\ rawTimerId' = after.rawTimerId
       /\ snapshotTimerId' = after.snapshotTimerId
       /\ timers' = after.timers
  /\ lastCall' = [ op |-> "stop", started |-> rawTimerId # 0 ]
  /\ ret' = Undefined
  /\ UNCHANGED <<observer, registry, engine, clock, published, ingested, flushes>>

NextTimers ==
  \/ TimePasses
  \/ GenerateInitialCells
  \/ StartCalled
  \/ StopCalled
  \/ RawTick
  \/ SnapshotTick
  \/ FlushStep

SpecTimers == InitForced /\ [][NextTimers]_vars

(***************************************************************************)
(* The accumulator between flushes, under scored events.                   *)
(***************************************************************************)
NextIngest ==
  \/ TimePasses
  \/ GenerateInitialCells
  \/ Start
  \/ RawTick
  \/ PushScoredEvent
  \/ SnapshotTick
  \/ FlushStep

SpecIngest == InitForced /\ [][NextIngest]_vars

\* A seed whose first baseline cell is drawn with high rain above zero
\* degrees.
WetSeed == Word(310000)

\* new Simulation({ targetCellCount: 0, targetHotspotCount: 0,
\*                  seed: 310000 })
InitWet ==
  /\ targetCellCount = 0
  /\ targetHotspotCount = 0
  /\ seed = WetSeed
  /\ hotspots = EmptyMap
  /\ stats = EmptyMap
  /\ flushing = NotFlushing
  /\ hotspotGen = Idle
  /\ rngState = seed
  /\ cellLocations = <<>>
  /\ rawAgg = EmptyMap
  /\ snapshot = EmptyMap
  /\ rawTimerId = 0
  /\ snapshotTimerId = 0
  /\ timers = {}
  /\ clock = CHOOSE t \in Instants : \A q \in Instants : t <= q
  /\ lastCall = [ op |-> "constructor" ]
  /\ ret = Undefined
  /\ published = EmptyMap
  /\ ingested = 0
  /\ flushes = 0
  /\ firstRun = NoRun

SpecWet == InitWet /\ [][NextIngest]_vars

(***************************************************************************)
(* Two hotspots of one key.  With the seed 1056912 the first two passes of *)
(* generateInitialHotspots place their hotspots at 50.075197, 14.438012    *)
(* and at 50.075196, 14.438011, which are the same to five decimals.       *)
(***************************************************************************)
CollidingSeed == Word(1056912)

\* new Simulation({ targetCellCount: 0, targetHotspotCount: 2,
\*                  seed: 1056912 })
InitColliding ==
  /\ targetCellCount = 0
  /\ targetHotspotCount = 2
  /\ seed = CollidingSeed
  /\ hotspots = EmptyMap
  /\ stats = EmptyMap
  /\ flushing = NotFlushing
  /\ hotspotGen = Idle
  /\ rngState = seed
  /\ cellLocations = <<>>
  /\ rawAgg = EmptyMap
  /\ snapshot = EmptyMap
  /\ rawTimerId = 0
  /\ snapshotTimerId = 0
  /\ timers = {}
  /\ clock = CHOOSE t \in Instants : \A q \in Instants : t <= q
  /\ lastCall = [ op |-> "constructor" ]
  /\ ret = Undefined
  /\ published = EmptyMap
  /\ ingested = 0
  /\ flushes = 0
  /\ firstRun = NoRun

NextColliding ==
  \/ TimePasses
  \/ GenerateInitialData
  \/ HotspotStatStep
  \/ HotspotStore
  \/ GetHotspots
  \/ GetHotspotsInBbox

SpecColliding == InitColliding /\ [][NextColliding]_vars

(***************************************************************************)
(* Properties.                                                             *)
(***************************************************************************)
\* The statement stmt of the running flush has run.
Done(stmt) ==
  flushing.active /\ \E k \in 1..flushing.pc : FlushStatements[k] = stmt

\* The step ingests an event (pushRawEvent or the production timer).
IngestionStep == ingested' > ingested

\* C1: whatever the interleaving of ingestions, flushes and reads, what
\* getSnapshot, getSnapshotInBbox and getCell return is the content of the
\* one snapshot version published last: getSnapshot returns that version
\* whole, a bounding-box read returns those of its entries that lie in the
\* box, getCell returns its entry for the cell or undefined when it has
\* none; no entry of an older version and no entry of a mapping under
\* construction is ever returned.  (The last read and its result are
\* compared with the version until the next flush starts.)
ReadsOnePublishedVersion ==
  ~flushing.active =>
    /\ lastCall.op = "getSnapshot" => ret = Returned(published)
    /\ (lastCall.op = "getSnapshotInBbox" /\ ret.kind = "value") =>
         /\ DOMAIN ret.value =
              { h3 \in DOMAIN published :
                  InBbox(CellToLatLng(h3)[1], CellToLatLng(h3)[2], lastCall.bbox) }
         /\ \A h3 \in DOMAIN ret.value : ret.value[h3] = published[h3]
    /\ lastCall.op = "getCell" =>
         IF lastCall.h3Index \in DOMAIN published
         THEN ret = Returned(published[lastCall.h3Index])
         ELSE ret = Undefined

\* A whole-snapshot read after the second flush returns the version of
\* that flush alone, cX, and none of the baseline cells of the versions
\* before it.
ReadAfterSecondFlush ==
  /\ lastCall.op = "getSnapshot"
  /\ flushes = 2
  /\ Len(cellLocations) = 2
  /\ ret.kind = "value"
  /\ DOMAIN ret.value = {"cX"}

\* C2: within a flush the new mapping is built from the whole accumulator,
\* then published, and only then is the accumulator cleared: while the
\* flush has not published, the accumulator is what it was at the call and
\* the visible snapshot is the old one; once it has published, the visible
\* snapshot is the mapping built from the accumulator as it was at the call.
ClearsOnlyAfterPublishing ==
  flushing.active =>
    /\ ~Done("publish") => rawAgg = flushing.before /\ snapshot = flushing.prev
    /\ Done("publish") =>
         snapshot = BuildNewSnapshot(flushing.before, flushing.prev, flushing.now)

\* A flush that has published the mapping of a non-empty accumulator and
\* has not cleared the accumulator yet.
PublishedBeforeClear ==
  /\ Done("publish")
  /\ flushing.before # EmptyMap
  /\ rawAgg = flushing.before
  /\ snapshot # flushing.prev

SnapshotKeysAreAccumulatorKeys ==
  /\ Done("publish") => DOMAIN snapshot = DOMAIN flushing.before
  /\ (~flushing.active /\ lastCall.op = "flush") =>
       /\ DOMAIN snapshot = lastCall.cells
       /\ ret = Undefined

\* The second flush found the accumulator empty and has left an empty
\* snapshot where the first flush had published the baseline cells.
EmptyFlushDropsCells ==
  /\ lastCall.op = "flush"
  /\ flushes = 2
  /\ lastCall.cells = {}
  /\ snapshot = EmptyMap
  /\ Len(cellLocations) = 2

\* C5: an ingestion, by pushRawEvent or by the production timer, leaves the
\* snapshot (its keys and every entry), the hotspots and the statistics
\* cache as they were, for every cell id and every event.
IngestionChangesAccumulatorOnly ==
  [][ IngestionStep =>
        /\ snapshot' = snapshot
        /\ hotspots' = hotspots
        /\ stats' = stats ]_vars

\* pushRawEvent has run with a snapshot, a hotspot and a statistics entry
\* in place.
PushedWithStoresFilled ==
  /\ lastCall.op = "pushRawEvent"
  /\ snapshot # EmptyMap
  /\ hotspots # EmptyMap
  /\ stats # EmptyMap
  /\ rawAgg # EmptyMap

\* metadata and environment of a cell are those of the summary of one
\* event {temperature: 10.0}.
IsMinimalSummary(cell) ==
  /\ cell.metadata.confidence = 80
  /\ cell.metadata.total_count = 1
  /\ cell.environment.temperature = 100
  /\ cell.environment.conditions.rain_intensity = "NONE"
  /\ cell.environment.conditions.road_condition = "DRY"

\* The last ingestion was pushRawEvent(cellX, {temperature: 10.0}).
PushedMinimal == lastCall.op = "pushRawEvent" /\ lastCall.event = EvMinimal

\* C6, as the model confirms it: pushRawEvent(cellX, {temperature: 10.0})
\* on an accumulator that has no entry for cellX, followed by a flush with
\* no ingestion in between, publishes an entry for cellX with confidence 80,
\* total_count 1, temperature 10.0, rain_intensity NONE and road_condition
\* DRY.
MinimalEventAloneEndToEnd ==
  (Done("publish") /\ PushedMinimal /\ lastCall.fresh) =>
    /\ lastCall.h3Index \in DOMAIN snapshot
    /\ IsMinimalSummary(snapshot[lastCall.h3Index])

\* The flush has published the summary of the one event of cX, beside the
\* baseline cells.
MinimalEventPublished ==
  /\ Done("publish")
  /\ PushedMinimal
  /\ lastCall.fresh
  /\ lastCall.h3Index = "cX"
  /\ IsMinimalSummary(snapshot["cX"])
  /\ DOMAIN snapshot # {"cX"}

\* C6, as it is stated: pushRawEvent(cellX, {temperature: 10.0}) followed
\* by a flush publishes that entry for any cell id cellX, whatever the
\* accumulator holds for cellX at the push.
MinimalEventEndToEnd ==
  (Done("publish") /\ PushedMinimal) =>
    /\ lastCall.h3Index \in DOMAIN snapshot
    /\ IsMinimalSummary(snapshot[lastCall.h3Index])

\* The event {temperature: 10.0} with every optional property given as its
\* documented default and the timestamp as the time of the call.
MinimalSpelledOut(now) ==
  [ temperature |-> 100, confidence |-> 80, count |-> 1, fog |-> FALSE,
    cross_wind |-> FALSE, rain_intensity |-> "NONE", road_condition |-> "DRY",
    timestamp |-> now ]

\* C7: pushRawEvent with only a temperature returns without an error and
\* leaves the accumulator as the same call with confidence 80, count 1, fog
\* false, cross_wind false, rain_intensity NONE, road_condition DRY and the
\* time of the call as timestamp would leave it.
MissingFieldsAreDefaults ==
  [][ (IngestionStep /\ lastCall'.op = "pushRawEvent"
                     /\ lastCall'.event = EvMinimal) =>
        /\ rawAgg' = PushRawEvent(rawAgg, lastCall'.h3Index,
                                  MinimalSpelledOut(clock), clock)
        /\ ret' = Undefined ]_vars

\* pushRawEvent with only a temperature has merged into a bucket that held
\* an event already.
MinimalMergedIntoBucket ==
  /\ PushedMinimal
  /\ ~lastCall.fresh
  /\ rawAgg[lastCall.h3Index].count = 2

\* The rain intensity of mean rain score R / n and the road condition of
\* mean road score D / n, by the thresholds of the table.
RainOfMean(R, n) ==
  IF R * 10 >= n * 30 THEN "HIGH"
  ELSE IF R * 10 >= n * 12 THEN "MEDIUM"
  ELSE IF R * 10 >= n * 6 THEN "LOW"
  ELSE "NONE"

RoadOfMean(D, n) ==
  IF D * 10 >= n * 25 THEN "SLIPPERY_ICE"
  ELSE IF D * 10 >= n * 18 THEN "SLIPPERY"
  ELSE IF D * 10 >= n * 8 THEN "WET"
  ELSE "DRY"

\* C8: a flush gives every cell of the accumulator, with n events, rain
\* score sum R and road score sum D, the rain intensity HIGH if R/n >= 3.0,
\* else MEDIUM if R/n >= 1.2, else LOW if R/n >= 0.6, else NONE, and the
\* road condition SLIPPERY_ICE if D/n >= 2.5, else SLIPPERY if D/n >= 1.8,
\* else WET if D/n >= 0.8, else DRY.
ClassifiedByMeanScores ==
  Done("publish") =>
    \A c \in DOMAIN flushing.before :
      LET b == flushing.before[c]
          conditions == snapshot[c].environment.conditions
      IN  /\ b.count >= 1
          /\ conditions.rain_intensity = RainOfMean(b.rainScore, b.count)
          /\ conditions.road_condition = RoadOfMean(b.roadScore, b.count)

\* Ten events of mean rain score 1.0 and mean road score 0.9 have been
\* published as LOW and WET.
MeanExamplesClassified ==
  /\ Done("publish")
  /\ "cX" \in DOMAIN flushing.before
  /\ flushing.before["cX"].count = 10
  /\ flushing.before["cX"].rainScore = 10
  /\ flushing.before["cX"].roadScore = 9
  /\ snapshot["cX"].environment.conditions.rain_intensity = "LOW"
  /\ snapshot["cX"].environment.conditions.road_condition = "WET"

\* C9, as it is stated: in every state every entry of the snapshot and
\* every stored hotspot has a confidence in [0,100] and a total_count of at
\* least 1.
ConfidenceAndCountInRange ==
  /\ \A c \in DOMAIN snapshot :
       /\ snapshot[c].metadata.confidence \in 0..100
       /\ snapshot[c].metadata.total_count >= 1
  /\ \A h \in DOMAIN hotspots :
       /\ hotspots[h].metadata.risk.confidence \in 0..100
       /\ hotspots[h].metadata.total_count >= 1

\* C10: for every total_count, every time_of_day_impact in 1..5 and every
\* random stream, the occurrences distributed so far by
\* #generateHotspotStatistics are the sum of by_day, the sum of by_week and
\* the sum of by_time, so that each sum is total_count when the loop ends;
\* by_day has the 7 weekday codes as its keys, by_week has keys in 1..52
\* and by_time has the 48 half-hour keys it was initialised with.
OccurrencesConserved ==
  hotspotGen.active =>
    LET dist == hotspotGen.dist
        distributed == hotspotGen.total_count - hotspotGen.remaining
    IN  /\ SumValues(dist.by_day) = distributed
        /\ SumValues(dist.by_week) = distributed
        /\ SumValues(dist.by_time) = distributed
        /\ hotspotGen.remaining = 0 =>
             SumValues(dist.by_time) = hotspotGen.total_count
        /\ DOMAIN dist.by_day = { DayCodes[i] : i \in 1..7 }
        /\ DOMAIN dist.by_week \subseteq 1..52
        /\ DOMAIN dist.by_time = HalfHours

\* The loop has ended with an occurrence of the night band at 03:30, the
\* hour 27 wrapped, and one in week 52.
NightOccurrenceWrapped ==
  /\ hotspotGen.active
  /\ hotspotGen.remaining = 0
  /\ hotspotGen.total_count = 2
  /\ hotspotGen.dist.by_time[<<3, 30>>] >= 1
  /\ 52 \in DOMAIN hotspotGen.dist.by_week

(***************************************************************************)
(* C11.                                                                    *)
(***************************************************************************)
\* The second run has generated its baseline.
SecondRunDone == firstRun.done /\ lastCall.op = "generateInitialData" /\ ~Busy

\* C11: two runs with the same seed and the same cell and hotspot counts
\* produce the same cell locations and the same hotspots, every field of
\* every hotspot equal, whatever the clock reads and whatever else the
\* environment supplies.
SameSeedSameData ==
  SecondRunDone => /\ cellLocations = firstRun.cellLocations
                   /\ hotspots = firstRun.hotspots

\* The part of C11 the program keeps: the cell locations, the keys of the
\* hotspots and every field of a hotspot but metadata.id and timeframe.
SameSeedSameButIdAndTimeframe ==
  SecondRunDone =>
    /\ cellLocations = firstRun.cellLocations
    /\ DOMAIN hotspots = DOMAIN firstRun.hotspots
    /\ \A k \in DOMAIN hotspots :
         [ hotspots[k] EXCEPT !.metadata.id = firstRun.hotspots[k].metadata.id,
                              !.timeframe = firstRun.hotspots[k].timeframe ]
           = firstRun.hotspots[k]

(***************************************************************************)
(* The initial cells and the bounding-box reads.                           *)
(***************************************************************************)
\* The cell ids of the sampled locations.
SampledIds == { cellLocations[i].h3 : i \in DOMAIN cellLocations }

\* C12: generateInitialCells(n) on a fresh instance leaves exactly n sampled
\* locations, and the initial snapshot has at most n entries: exactly one
\* for every distinct cell id among the sampled locations.
InitialCellsOnePerSampledId ==
  lastCall.op = "generateInitialCells" =>
    /\ Len(cellLocations) = lastCall.forceCount
    /\ Cardinality(DOMAIN snapshot) <= lastCall.forceCount
    /\ DOMAIN snapshot = SampledIds

\* Three sampled locations, two of them in the same cell: two entries.
SampledLocationsCollapse ==
  /\ lastCall.op = "generateInitialCells"
  /\ lastCall.forceCount = 3
  /\ \E i, j \in DOMAIN cellLocations :
       i # j /\ cellLocations[i].h3 = cellLocations[j].h3
  /\ Cardinality(DOMAIN snapshot) = 2

\* A box of four numbers.
WellFormed(bbox) == Len(bbox) = 4 /\ \A i \in 1..4 : bbox[i] # NaN

\* C13: getSnapshotInBbox([minLng, minLat, maxLng, maxLat]) returns exactly
\* the cells of the current snapshot whose representative coordinate
\* satisfies minLat <= lat <= maxLat and minLng <= lng <= maxLng, the four
\* bounds included, and getHotspotsInBbox returns exactly the hotspots
\* whose stored latitude and longitude satisfy the same test.
BboxBoundsInclusive ==
  /\ (lastCall.op = "getSnapshotInBbox" /\ WellFormed(lastCall.bbox)) =>
       ret = Returned(
         [ h3 \in { c \in DOMAIN snapshot :
                      /\ lastCall.bbox[2] <= CellToLatLng(c)[1]
                      /\ CellToLatLng(c)[1] <= lastCall.bbox[4]
                      /\ lastCall.bbox[1] <= CellToLatLng(c)[2]
                      /\ CellToLatLng(c)[2] <= lastCall.bbox[3] }
             |-> snapshot[h3] ])
  /\ (lastCall.op = "getHotspotsInBbox" /\ WellFormed(lastCall.bbox)) =>
       ret = Returned(
         [ id \in { h \in DOMAIN hotspots :
                      /\ lastCall.bbox[2] <= hotspots[h].location.latitude
                      /\ hotspots[h].location.latitude <= lastCall.bbox[4]
                      /\ lastCall.bbox[1] <= hotspots[h].location.longitude
                      /\ hotspots[h].location.longitude <= lastCall.bbox[3] }
             |-> hotspots[id] ])

\* A read of a box whose maxLat is the latitude of c1 returns c1 and not c2.
CellOnMaxLatEdgeReturned ==
  /\ lastCall.op = "getSnapshotInBbox"
  /\ WellFormed(lastCall.bbox)
  /\ lastCall.bbox[4] = CellToLatLng("c1")[1]
  /\ {"c1", "c2"} \subseteq DOMAIN snapshot
  /\ ret.kind = "value"
  /\ DOMAIN ret.value = {"c1"}

\* A read of a box whose maxLat is the latitude of a hotspot returns that
\* hotspot.
HotspotOnMaxLatEdgeReturned ==
  /\ lastCall.op = "getHotspotsInBbox"
  /\ WellFormed(lastCall.bbox)
  /\ ret.kind = "value"
  /\ \E id \in DOMAIN ret.value :
       hotspots[id].location.latitude = lastCall.bbox[4]
\* The last call was a bounding-box read of the class.
BboxRead == lastCall.op \in {"getSnapshotInBbox", "getHotspotsInBbox"}

\* C14: a bounding box that does not have exactly four values, or that has
\* a value that is not a number, is rejected with an error by
\* getSnapshotInBbox and getHotspotsInBbox, and no result is returned.
MalformedBboxRejected ==
  (BboxRead /\ ~WellFormed(lastCall.bbox)) => ret.kind = "throw"

\* What the two methods do reject: a box that has not four values.
WrongArityRejected ==
  (BboxRead /\ Len(lastCall.bbox) # 4) => ret = Thrown(InvalidBboxError)

\* A box of four values with a NaN among them is answered with the empty
\* record.
NaNBboxAnsweredEmpty ==
  (BboxRead /\ Len(lastCall.bbox) = 4 /\ ~WellFormed(lastCall.bbox)) =>
    ret = Returned(EmptyMap)
(***************************************************************************)
(* The statistics cache.                                                   *)
(***************************************************************************)
\* The step is a call of addOrMergeStatistics for the cell id.
MergesStatisticsOf(id) ==
  /\ lastCall' # lastCall
  /\ lastCall'.op = "addOrMergeStatistics"
  /\ lastCall'.h3Index = id

\* C15: a statistics record stored for a cell is never regenerated or
\* overwritten by getCell: across ingestions and flushes it stays what it
\* was until addOrMergeStatistics is called for the cell, and a
\* getCell(id, { includeStatistics: true }) that returns a cell returns
\* the stored record.
StatisticsFirstWriterWins ==
  [][ \A id \in DOMAIN stats :
        /\ id \in DOMAIN stats'
        /\ stats'[id] # stats[id] => MergesStatisticsOf(id)
        /\ ( /\ lastCall'.op = "getCellWithStatistics"
             /\ lastCall'.h3Index = id
             /\ ret'.kind = "value" )
           => ret'.value.statistics = stats[id] ]_vars

\* A getCell with statistics for a cell whose statistics were generated
\* by an earlier getCell, after an ingestion and a flush.
CachedStatisticsReadAfterFlush ==
  /\ lastCall.op = "getCellWithStatistics"
  /\ lastCall.cached
  /\ ret.kind = "value"
  /\ ret.value.statistics = stats[lastCall.h3Index]
  /\ ret.value.statistics.temperature.lowest # Null
  /\ ingested >= 1
  /\ flushes >= 1
(***************************************************************************)
(* addOrMergeStatistics, leaf by leaf.                                     *)
(***************************************************************************)
\* The leaf fields of a statistics record, as paths.
Leaves ==
  { <<"temperature", "lowest">>, <<"temperature", "highest">>,
    <<"day_counts", "rain", "low">>, <<"day_counts", "rain", "medium">>,
    <<"day_counts", "rain", "high">>, <<"day_counts", "slippery_road">>,
    <<"day_counts", "fog">>, <<"day_counts", "cross_wind">> }

\* The record r has a field at the path p, and what it holds there.
RECURSIVE Has(_, _)
Has(r, p) == p = <<>> \/ (Head(p) \in DOMAIN r /\ Has(r[Head(p)], Tail(p)))

RECURSIVE At(_, _)
At(r, p) == IF p = <<>> THEN r ELSE At(r[Head(p)], Tail(p))

\* Null extremes and zero counts.
NothingStored ==
  [ temperature |-> [ lowest |-> Null, highest |-> Null ],
    day_counts  |-> [ rain |-> [ low |-> 0, medium |-> 0, high |-> 0 ],
                      slippery_road |-> 0, fog |-> 0, cross_wind |-> 0 ] ]

StoredBefore(id) == IF id \in DOMAIN stats THEN stats[id] ELSE NothingStored

\* The step leaves the statistics of all cells but id as they were.
OnlyStatisticsOf(id) ==
  /\ DOMAIN stats' = DOMAIN stats \cup {id}
  /\ \A other \in DOMAIN stats \ {id} : stats'[other] = stats[other]

MergeCalled == lastCall'.op = "addOrMergeStatistics" /\ "update" \in DOMAIN lastCall'

\* C16: after addOrMergeStatistics(id, partial) every leaf field of the
\* stored statistics of id equals the value in partial when partial
\* provides it, and otherwise the value stored before the call or, when
\* nothing was stored, the placeholder; the statistics of every other
\* cell are unchanged.
LeafWiseOverride ==
  [][ MergeCalled =>
        /\ OnlyStatisticsOf(lastCall'.h3Index)
        /\ \A p \in Leaves :
             At(stats'[lastCall'.h3Index], p) =
               IF Has(lastCall'.update, p) THEN At(lastCall'.update, p)
               ELSE At(StoredBefore(lastCall'.h3Index), p) ]_vars

\* The partial provides a value at the leaf p: the field is there and, for
\* an extreme, is not null.
Provides(update, p) ==
  Has(update, p) /\ (p[1] = "temperature" => At(update, p) # Null)

\* C16, amended: a leaf takes the value of partial when partial provides
\* one that is not null; a leaf that partial omits or gives as null keeps
\* the value stored before.
LeafWiseOverrideOfNonNull ==
  [][ MergeCalled =>
        /\ OnlyStatisticsOf(lastCall'.h3Index)
        /\ \A p \in Leaves :
             At(stats'[lastCall'.h3Index], p) =
               IF Provides(lastCall'.update, p) THEN At(lastCall'.update, p)
               ELSE At(StoredBefore(lastCall'.h3Index), p) ]_vars

\* A partial with a highest extreme and a null lowest, merged into the
\* generated statistics of a cell while another cell has statistics: the
\* highest is the partial's and the lowest is still the generated one.
NullExtremeKeepsStored ==
  /\ lastCall.op = "addOrMergeStatistics"
  /\ "update" \in DOMAIN lastCall
  /\ Has(lastCall.update, <<"temperature", "lowest">>)
  /\ lastCall.update.temperature.lowest = Null
  /\ lastCall.update.temperature.highest # Null
  /\ stats[lastCall.h3Index].temperature.highest = lastCall.update.temperature.highest
  /\ stats[lastCall.h3Index].temperature.lowest # Null
  /\ stats[lastCall.h3Index].day_counts.rain.low > 0
  /\ DOMAIN stats = {"c1", "c2"}
(***************************************************************************)
(* The getters hand out copies.                                            *)
(***************************************************************************)
\* C17: whatever getSnapshot, getHotspots, getCell, getSnapshotInBbox and
\* getHotspotsInBbox return is an independent copy: a caller writing to
\* the fields of a returned cell, hotspot or statistics record leaves the
\* stored snapshot, the hotspots and the statistics cache as they were.
ReturnedCopiesAreIndependent ==
  [][ lastCall'.op = "mutateReturned" =>
        /\ snapshot' = snapshot
        /\ hotspots' = hotspots
        /\ stats' = stats ]_vars

\* A caller has written to a cell returned with its statistics, while the
\* stores hold a cell, a hotspot and a statistics record.
MutatedCellWithStatistics ==
  /\ lastCall.op = "mutateReturned"
  /\ lastCall.after = "getCellWithStatistics"
  /\ DOMAIN snapshot # {}
  /\ DOMAIN hotspots # {}
  /\ DOMAIN stats # {}

\* A caller has written to the hotspots returned by a bounding-box read
\* that returned one.
MutatedHotspotsOfBbox ==
  /\ lastCall.op = "mutateReturned"
  /\ lastCall.after = "getHotspotsInBbox"
  /\ DOMAIN hotspots # {}
AnsweredRequest ==
  /\ lastCall.op = "GET hotspots"
  /\ lastCall.bbox # Absent
  /\ Len(StringListSchema(lastCall.bbox.pieces)) = 4
  /\ \A i \in DOMAIN lastCall.bbox.pieces : lastCall.bbox.pieces[i].kind # "text"
  /\ lastCall.min_confidence # Absent =>
       /\ lastCall.min_confidence.pieces[1].kind = "number"
       /\ lastCall.min_confidence.pieces[1].value \in 0..100

RequestedBox ==
  LET list == StringListSchema(lastCall.bbox.pieces)
  IN  [ i \in 1..4 |-> list[i].value ]

RequestedConfidence ==
  IF lastCall.min_confidence = Absent THEN 0
  ELSE lastCall.min_confidence.pieces[1].value

RequestedTypes ==
  { lastCall.type.pieces[i].text : i \in DOMAIN lastCall.type.pieces }

InRequestedBox(h) ==
  /\ RequestedBox[2] <= h.location.latitude
  /\ h.location.latitude <= RequestedBox[4]
  /\ RequestedBox[1] <= h.location.longitude
  /\ h.location.longitude <= RequestedBox[3]

OfRequestedType(h) ==
  lastCall.type = Absent \/ h.metadata.risk.type \in RequestedTypes

StoredHotspots == { hotspots[id] : id \in DOMAIN hotspots }

\* C19: the hotspots endpoint with min_confidence = c returns exactly the
\* hotspots inside the bbox whose metadata.risk.confidence is equal to or
\* higher than c (0 when the parameter is absent), of the listed risk
\* types when type is given and of all types when it is not.
EndpointKeepsEqualOrHigher ==
  AnsweredRequest =>
    ret = JsonResponse({ h \in StoredHotspots :
                           /\ InRequestedBox(h)
                           /\ h.metadata.risk.confidence >= RequestedConfidence
                           /\ OfRequestedType(h) })

\* What the route returns: the hotspots of a confidence higher than c.
EndpointKeepsHigherOnly ==
  AnsweredRequest =>
    ret = JsonResponse({ h \in StoredHotspots :
                           /\ InRequestedBox(h)
                           /\ h.metadata.risk.confidence > RequestedConfidence
                           /\ OfRequestedType(h) })

\* A request with min_confidence equal to the confidence of a hotspot of
\* the box and of a requested type is answered without that hotspot.
EqualConfidenceLeftOut ==
  /\ AnsweredRequest
  /\ \E h \in StoredHotspots :
       /\ InRequestedBox(h)
       /\ OfRequestedType(h)
       /\ h.metadata.risk.confidence = RequestedConfidence
       /\ h \notin ret.body

\* A request whose bbox has not four numbers is answered with an issue of
\* the schema, no hotspot having been read.
SchemaRejectsMalformedBbox ==
  ( /\ lastCall.op = "GET hotspots"
    /\ lastCall.bbox # Absent
    /\ \/ Len(StringListSchema(lastCall.bbox.pieces)) # 4
       \/ \E i \in DOMAIN lastCall.bbox.pieces :
            lastCall.bbox.pieces[i].kind = "text" )
  => ret.body.kind = "issue"
(***************************************************************************)
(* The accumulator between flushes.                                        *)
(***************************************************************************)
\* The scores of the rain intensities and of the road conditions.
RainScoreOf ==
  [ r \in RainIntensities |->
      CASE r = "NONE" -> 0 [] r = "LOW" -> 1 [] r = "MEDIUM" -> 2 [] r = "HIGH" -> 4 ]

RoadScoreOf ==
  [ d \in RoadConditions |->
      CASE d = "DRY" -> 0 [] d = "WET" -> 1 [] d = "SLIPPERY" -> 2
        [] d = "SLIPPERY_ICE" -> 3 [] d = "SLIPPERY_WET" -> 2 ]

\* The entry of id before the step, a bucket of nothing when it has none.
EntryBefore(id) ==
  IF id \in DOMAIN rawAgg THEN rawAgg[id]
  ELSE [ sumTemp |-> 0, count |-> 0, lastTs |-> 0, sumConfidence |-> 0,
         sumCounts |-> 0, fogVotes |-> 0, crossWindVotes |-> 0,
         rainScore |-> 0, roadScore |-> 0 ]

\* The step is a pushRawEvent(id, e) of an external caller.
Pushes(id, e) ==
  /\ ingested' = ingested + 1
  /\ lastCall'.op = "pushRawEvent"
  /\ lastCall'.h3Index = id
  /\ lastCall'.event = e

NightHour(t) == ((t % 24) + 1) % 24 < 6

\* C21: for every cell that is in the previous snapshot and in the
\* accumulator when a flush is called, the entry of the new snapshot has
\* the is_night of the previous entry, whatever the time of the wall
\* clock; a cell without a previous entry gets the is_night of the hour of
\* the wall clock.
IsNightInherited ==
  Done("publish") =>
    \A k \in DOMAIN flushing.before :
      snapshot[k].environment.is_night =
        IF k \in DOMAIN flushing.prev
        THEN flushing.prev[k].environment.is_night
        ELSE NightHour(flushing.now)

\* A flush by day has published a cell that keeps the night of its
\* previous entry and a cell without a previous entry that has the day.
NightKeptByDay ==
  /\ Done("publish")
  /\ ~NightHour(flushing.now)
  /\ \E k \in DOMAIN flushing.before \cap DOMAIN flushing.prev :
       snapshot[k].environment.is_night
  /\ \E k \in DOMAIN flushing.before \ DOMAIN flushing.prev :
       ~snapshot[k].environment.is_night
\* C22: at a flush, for every cell with an event count of n, fog is true
\* if and only if 2 * fogVotes >= n, and cross_wind is true if and only if
\* 5 * crossWindVotes >= n.
FogByHalfCrossWindByFifth ==
  Done("publish") =>
    \A c \in DOMAIN flushing.before :
      LET b == flushing.before[c]
          conditions == snapshot[c].environment.conditions
      IN  /\ b.count >= 1
          /\ conditions.fog <=> (2 * b.fogVotes >= b.count)
          /\ conditions.cross_wind <=> (5 * b.crossWindVotes >= b.count)

\* Ten events, five of them with fog and two with cross wind, have been
\* published with fog and with cross wind.
VotesOnTheThresholds ==
  /\ Done("publish")
  /\ "cX" \in DOMAIN flushing.before
  /\ flushing.before["cX"].count = 10
  /\ flushing.before["cX"].fogVotes = 5
  /\ flushing.before["cX"].crossWindVotes = 2
  /\ snapshot["cX"].environment.conditions.fog
  /\ snapshot["cX"].environment.conditions.cross_wind
(***************************************************************************)
(* The hotspots generateInitialHotspots stores.                            *)
(***************************************************************************)
\* The coordinates of the hotspot of pass i, in millionths of a degree, and
\* the two coordinates to five decimals.
PassLocation(i) == BuildHotspot(i, seed, 0, "", <<>>).location

ToFiveDecimals(location) ==
  << (location.latitude + 5) \div 10, (location.longitude + 5) \div 10 >>

\* The passes the loop has completed: those before the running one, none
\* while nothing is stored, all of them once the loop has ended.
PassesDone ==
  IF hotspotGen.active THEN 0..(hotspotGen.i - 1)
  ELSE IF hotspots = EmptyMap THEN {}
  ELSE 0..(targetHotspotCount - 1)

\* C23: generateInitialHotspots(M) does not fail when two of its hotspots
\* have the same coordinates to five decimals: every hotspot is stored
\* under the key of its coordinates to five decimals, the record of a
\* later pass replaces that of an earlier pass of the same key, and the
\* store holds at most M hotspots.
CollidingHotspotsOverwrite ==
  /\ Cardinality(DOMAIN hotspots) <= targetHotspotCount
  /\ \A k \in DOMAIN hotspots : k = ToFiveDecimals(hotspots[k].location)
  /\ DOMAIN hotspots = { ToFiveDecimals(PassLocation(i)) : i \in PassesDone }
  /\ \A i \in PassesDone :
       LET same == { j \in PassesDone :
                       ToFiveDecimals(PassLocation(j)) = ToFiveDecimals(PassLocation(i)) }
           last == CHOOSE j \in same : \A q \in same : q <= j
       IN  hotspots[ToFiveDecimals(PassLocation(i))].location = PassLocation(last)

\* The generation of two hotspots has returned and the store holds one,
\* that of the second pass.
SecondHotspotReplacedFirst ==
  /\ lastCall.op # "constructor"
  /\ ~hotspotGen.active
  /\ targetHotspotCount = 2
  /\ PassLocation(0) # PassLocation(1)
  /\ Cardinality(DOMAIN hotspots) = 1
  /\ \A k \in DOMAIN hotspots : hotspots[k].location = PassLocation(1)
\* The instant an ISO string reads, in whole hours.
InstantOfISO(iso) == iso[2]

HoursOfDays(days) == days * 24

\* C24: every generated hotspot has total_count in [5, 505), weather_impact,
\* time_of_day_impact and importance in [1, 5], a last timestamp at most 30
\* days before the generation time and a first timestamp between 30 and 330
\* days before last, so strictly before it.
GeneratedHotspotRanges ==
  lastCall.op = "generateInitialHotspots" =>
    LET last  == InstantOfISO(ret.timeframe.last)
        first == InstantOfISO(ret.timeframe.first)
    IN  /\ ret.metadata.total_count \in 5..504
        /\ ret.metadata.weather_impact \in 1..5
        /\ ret.metadata.time_of_day_impact \in 1..5
        /\ ret.metadata.risk.importance \in 1..5
        /\ last <= lastCall.now
        /\ lastCall.now - last <= HoursOfDays(30)
        /\ last - first >= HoursOfDays(30)
        /\ last - first <= HoursOfDays(330)
        /\ first < last

\* A hotspot of the greatest draws: the greatest count and impacts, the
\* oldest instants.
HotspotOfGreatestDraws ==
  /\ lastCall.op = "generateInitialHotspots"
  /\ ret.metadata.total_count = 504
  /\ ret.metadata.weather_impact = 5
  /\ ret.metadata.time_of_day_impact = 5
  /\ ret.metadata.risk.importance = 5
  /\ lastCall.now - InstantOfISO(ret.timeframe.last) = HoursOfDays(30) - 1
  /\ InstantOfISO(ret.timeframe.last) - InstantOfISO(ret.timeframe.first) = HoursOfDays(330) - 1
\* C25: the road condition of the environment model is a function of rain
\* intensity and temperature only: with rain MEDIUM or HIGH it is
\* SLIPPERY_ICE at -5 degrees or below, else SLIPPERY at 0 or below, else
\* SLIPPERY_WET if the rain is HIGH, else WET; with rain NONE or LOW it is
\* SLIPPERY_ICE at -8 degrees or below, else DRY.
EnvRoadByRainAndTemperature ==
  lastCall.op = "#generateEnvironmentForLocation" =>
    LET rain == ret.conditions.rain_intensity
        temp == ret.temperature
    IN  ret.conditions.road_condition =
          IF rain \in {"MEDIUM", "HIGH"}
          THEN IF temp <= 0 - 50 THEN "SLIPPERY_ICE"
               ELSE IF temp <= 0 THEN "SLIPPERY"
               ELSE IF rain = "HIGH" THEN "SLIPPERY_WET"
               ELSE "WET"
          ELSE IF temp <= 0 - 80 THEN "SLIPPERY_ICE" ELSE "DRY"

\* High rain at -5 degrees sharp: ice.
IceInHighRainAtMinusFive ==
  /\ lastCall.op = "#generateEnvironmentForLocation"
  /\ ret.conditions.rain_intensity = "HIGH"
  /\ ret.temperature = 0 - 50
  /\ ret.conditions.road_condition = "SLIPPERY_ICE"
\* C26: the environment model is a pure function: two calls with the same
\* (lat, lng, timestamp, seed) return the same observation whatever was drawn
\* in between, and no call changes the state of the simulation: a second
\* generateInitialCells(forceCount) at the same reading of the clock draws
\* for each location the environment of the same (lat, lng, timestamp, i)
\* again, so every cell keeps the environment it had.
EnvironmentModelIsPure ==
  [][ (cellLocations # <<>> /\ cellLocations' = cellLocations /\ rngState' # rngState)
      => \A k \in DOMAIN snapshot :
           snapshot'[k].timeframe.last = snapshot[k].timeframe.last
             => snapshot'[k].environment = snapshot[k].environment ]_vars
\* The events and the observations a map of buckets holds.
EventsIn(agg) ==
  LET S[ks \in SUBSET DOMAIN agg] ==
        IF ks = {} THEN 0
        ELSE LET k == CHOOSE x \in ks : TRUE IN agg[k].count + S[ks \ {k}]
  IN  S[DOMAIN agg]

ObservationsIn(agg) ==
  LET S[ks \in SUBSET DOMAIN agg] ==
        IF ks = {} THEN 0
        ELSE LET k == CHOOSE x \in ks : TRUE IN agg[k].sumCounts + S[ks \ {k}]
  IN  S[DOMAIN agg]

\* C27: no ingested event is lost or counted twice across flushes: a push
\* happens outside a flush and adds one event and its observations to the
\* accumulator without touching the published snapshot; the snapshot a
\* flush publishes has a cell for each bucket accumulated since the last
\* flush and counts its observations, no more; and the flush ends with an
\* empty accumulator, so no event reaches a later snapshot.
NoEventLostOrCountedTwice ==
  [][ /\ ingested' = ingested + 1
          => /\ ~flushing.active
             /\ EventsIn(rawAgg') = EventsIn(rawAgg) + 1
             /\ ObservationsIn(rawAgg') =
                  ObservationsIn(rawAgg) + OrDefault(lastCall'.event, "count", DefaultCount)
             /\ published' = published
      /\ (flushing.active /\ FlushStatements[flushing.pc + 1] = "publish")
          => /\ rawAgg = flushing.before
             /\ DOMAIN published' = DOMAIN rawAgg
             /\ \A k \in DOMAIN rawAgg :
                  published'[k].metadata.total_count = rawAgg[k].sumCounts
      /\ (flushing.active /\ ~flushing'.active)
          => rawAgg' = EmptyMap ]_vars

\* Three events in two windows: the second flush has published the one
\* observation pushed after the first.
SecondWindowPublishedAlone ==
  /\ flushes = 2
  /\ ingested = MaxWindowPushes
  /\ ~flushing.active
  /\ lastCall.op = "flush"
  /\ rawAgg = EmptyMap
  /\ DOMAIN published = {"cX"}
  /\ published["cX"].metadata.total_count = 1
\* C28: ingestion is order-independent: for any two events with explicit
\* timestamps and any cell ids, pushing the first and then the second
\* leaves the accumulator in the state pushing the second and then the
\* first leaves it in, so the snapshot of the next flush does not depend
\* on the order the events of a window arrive in.
IngestionOrderIndependent ==
  \A h1 \in PushCells, h2 \in PushCells :
    \A e1 \in DoubleEvents, e2 \in DoubleEvents :
      \E a12 \in { PushRawEventOfDoubles(
                      PushRawEventOfDoubles(rawAgg, h1, e1, clock), h2, e2, clock) } :
        \E a21 \in { PushRawEventOfDoubles(
                        PushRawEventOfDoubles(rawAgg, h2, e2, clock), h1, e1, clock) } :
          /\ a12 = a21
          /\ BuildNewSnapshotOfDoubles(a12, snapshot, clock)
               = BuildNewSnapshotOfDoubles(a21, snapshot, clock)

\* The first two events of a bucket may arrive in either order.
OrderIndependentOnFreshBuckets ==
  \A h1 \in PushCells \ DOMAIN rawAgg, h2 \in PushCells \ DOMAIN rawAgg :
    \A e1 \in DoubleEvents, e2 \in DoubleEvents :
      PushRawEventOfDoubles(PushRawEventOfDoubles(rawAgg, h1, e1, clock), h2, e2, clock)
        = PushRawEventOfDoubles(PushRawEventOfDoubles(rawAgg, h2, e2, clock), h1, e1, clock)
\* A bucket of two events after which the order of the next two tells in
\* the temperature the flush publishes: 5.4 or 5.5 degrees.
FlushedTemperatureDependsOnOrder ==
  /\ "cX" \in DOMAIN rawAgg
  /\ rawAgg["cX"].count = 2
  /\ \E e1 \in DoubleEvents, e2 \in DoubleEvents :
       /\ FlushTemperatureOfDoubles(
            MergeEventOfDoubles(MergeEventOfDoubles(rawAgg["cX"], e1, clock), e2, clock)) = 54
       /\ FlushTemperatureOfDoubles(
            MergeEventOfDoubles(MergeEventOfDoubles(rawAgg["cX"], e2, clock), e1, clock)) = 55
\* C29: a cell summarised from exactly one ingested event gets the
\* categories of that event back, the rain intensity and the road condition
\* alike, whatever they are; and the first flush after generateInitialCells
\* with no live event republishes each baseline cell with the conditions it
\* had.
SingleEventCategoriesKept ==
  Done("publish") =>
    /\ (/\ lastCall.op = "pushRawEvent"
        /\ flushing.before[lastCall.h3Index].count = 1)
         => LET conditions == published[lastCall.h3Index].environment.conditions
            IN  /\ conditions.rain_intensity =
                     OrDefault(lastCall.event, "rain_intensity", "NONE")
                /\ conditions.road_condition =
                     OrDefault(lastCall.event, "road_condition", "DRY")
    /\ (flushes = 1 /\ ingested = 0)
         => \A k \in DOMAIN flushing.prev :
              /\ k \in DOMAIN published
              /\ published[k].environment.conditions
                   = flushing.prev[k].environment.conditions
\* A baseline cell drawn SLIPPERY_WET is republished SLIPPERY by the first
\* flush, no event having come in.
WetBaselineRepublishedSlippery ==
  /\ Done("publish")
  /\ flushes = 1
  /\ ingested = 0
  /\ \E k \in DOMAIN flushing.prev :
       /\ flushing.prev[k].environment.conditions.road_condition = "SLIPPERY_WET"
       /\ published[k].environment.conditions.road_condition = "SLIPPERY"

\* What a single event does get back: its rain intensity whatever it is,
\* and its road condition unless that is SLIPPERY_WET, which comes back as
\* SLIPPERY.
SingleEventCategoriesButSlipperyWet ==
  (/\ Done("publish")
   /\ lastCall.op = "pushRawEvent"
   /\ flushing.before[lastCall.h3Index].count = 1)
    => LET conditions == published[lastCall.h3Index].environment.conditions
           road       == OrDefault(lastCall.event, "road_condition", "DRY")
       IN  /\ conditions.rain_intensity =
                OrDefault(lastCall.event, "rain_intensity", "NONE")
           /\ conditions.road_condition =
                IF road = "SLIPPERY_WET" THEN "SLIPPERY" ELSE road
\* C30: in every reachable state every entry of the published snapshot is
\* stored under its own id: the entry at key k has location.h3_index = k,
\* in the baseline and after any ingestions and flushes.
EntriesStoredUnderOwnId ==
  /\ \A k \in DOMAIN snapshot : snapshot[k].location.h3_index = k
  /\ \A k \in DOMAIN published : published[k].location.h3_index = k

\* A flush has published a baseline cell and a cell an event was pushed
\* to.
BaselineAndPushedCellPublished ==
  /\ flushes >= 1
  /\ ingested >= 1
  /\ lastCall.op = "flush"
  /\ cellLocations # <<>>
  /\ "cX" \in DOMAIN snapshot
  /\ \E k \in DOMAIN snapshot : k # "cX"
  /\ published = snapshot
(***************************************************************************)
(* getCell for an id the snapshot does not hold.                           *)
(***************************************************************************)
\* The step is a call of getCell, with or without statistics, for the id.
GetCellCalledFor(id) ==
  /\ ~Busy
  /\ lastCall'.op \in { "getCell", "getCellWithStatistics" }
  /\ lastCall'.h3Index = id
  /\ UNCHANGED <<lifecycle, clock, flushes>>

\* C31: getCell(id, opts) returns undefined whenever the id is absent from
\* the current snapshot, also for a cell that was in an earlier snapshot
\* and whose statistics are cached or were stored by addOrMergeStatistics,
\* and the call then creates and changes no statistics entry.
GetCellOfAbsentIdUndefined ==
  [][ \A id \in CellIds :
        (GetCellCalledFor(id) /\ id \notin DOMAIN snapshot) =>
          /\ ret' = Undefined
          /\ stats' = stats ]_vars

\* A getCell with statistics for a generated cell that the second flush
\* dropped from the snapshot while the statistics an earlier getCell had
\* generated for it (extremes not null) stayed in the cache.
DroppedCellWithCachedStatisticsAsked ==
  /\ lastCall.op = "getCellWithStatistics"
  /\ cellLocations # <<>>
  /\ lastCall.h3Index \notin DOMAIN snapshot
  /\ lastCall.h3Index \in DOMAIN stats
  /\ stats[lastCall.h3Index].temperature.lowest # Null
  /\ ret = Undefined
  /\ flushes >= 2

(***************************************************************************)
(* The two timers under start() and stop().                                *)
(***************************************************************************)
\* The live timers of a kind.
TimersOfKind(kind) == { t \in timers : t.kind = kind }

\* C32: after any sequence of start() and stop() calls at most one
\* production timer and at most one flush timer are active, the two are
\* both active or both inactive; start() on a started simulation creates
\* no timer and stop() on a stopped one changes nothing.
AtMostOneTimerOfEachKind ==
  /\ [] ( /\ Cardinality(TimersOfKind("raw")) <= 1
          /\ Cardinality(TimersOfKind("snapshot")) <= 1
          /\ timers = TimersOfKind("raw") \cup TimersOfKind("snapshot")
          /\ (TimersOfKind("raw") = {}) <=> (TimersOfKind("snapshot") = {})
          /\ (rawTimerId # 0) <=> (snapshotTimerId # 0)
          /\ (rawTimerId # 0) <=> (TimersOfKind("raw") # {})
          /\ \A t \in TimersOfKind("raw") : t.id = rawTimerId
          /\ \A t \in TimersOfKind("snapshot") : t.id = snapshotTimerId )
  /\ [][ /\ (lastCall' # lastCall /\ lastCall'.op = "start" /\ lastCall'.started) =>
              lifecycle' = lifecycle
         /\ (lastCall' # lastCall /\ lastCall'.op = "stop" /\ ~lastCall'.started) =>
              /\ lifecycle' = lifecycle
              /\ timers = {}
         /\ rawTimerId # 0 =>
              \/ lifecycle' = lifecycle
              \/ (timers' = {} /\ lastCall'.op = "stop")
         /\ rawTimerId = 0 =>
              \/ lifecycle' = lifecycle
              \/ (Cardinality(timers') = 2 /\ lastCall'.op = "start") ]_vars

\* A start() on a simulation whose flush timer has fired: it found the
\* simulation started and left the two timers it had.
StartOnStartedSimulation ==
  /\ lastCall.op = "start"
  /\ lastCall.started
  /\ Cardinality(timers) = 2
  /\ rawTimerId # 0
  /\ snapshotTimerId # 0
  /\ flushes >= 1

====
